---- MODULE Spec2Model ----
(***************************************************************************)
(* Model of the multi-terminal orchestrator: its task queue                *)
(* (src/src/redis/RedisTaskQueue.ts), its retry policy                     *)
(* (src/src/tasks/RetryStrategy.ts), its coordinator                       *)
(* (src/src/agents/CoordinatorAgent.ts), its worker                        *)
(* (src/unnamed/part_004) and its task router                              *)
(* (src/src/redis/RedisStateStore.ts, src/src/domains/strategies).         *)
(*                                                                         *)
(* The specifications share the variables:                                 *)
(*   Spec      the queue, each operation run to completion by one caller;  *)
(*   SpecRace  the queue with dequeue and markComplete split at their      *)
(*             awaits (one Redis command per step), two callers;           *)
(*   SpecCoord, SpecStatus, SpecRate, SpecExec, SpecRuns, SpecDrain,       *)
(*             SpecQueueRun  the coordinator, split at its awaits, under   *)
(*             different callers;                                          *)
(*   SpecRetry, SpecWorker  the retry strategies, withRetry, the worker;   *)
(*   SpecRouter, SpecRoundRobin  the task router and its strategies.       *)
(*                                                                         *)
(* Task ids are the integers 1..MaxTasks; their integer order stands for   *)
(* the lexicographic order of the id strings, which is the order Redis     *)
(* gives to sorted-set members of equal score.  Time is counted in units   *)
(* of TickMs.  The code compares scheduledAt with Date.now() and does     *)
(* nothing else with either, so a task's scheduledAt is kept relative to   *)
(* the clock: the field holds scheduledAt - Date.now(), or 0 once that     *)
(* time has passed, and Tick (TickMs passing) lowers   every field that is  *)
(* above 0.  Time is therefore unbounded in the model.  The timestamps     *)
(* startedAt / completedAt and the hash field 'error' are written by the   *)
(* code and read nowhere; they are left out.  Results expire after 3600 s, *)
(* far beyond any delay of the model; expiry is left out.                  *)
(***************************************************************************)
EXTENDS Integers, Sequences, FiniteSets, Bags, TLC

\* ------------------------------------------------------------------ bounds
MaxTasks == 2
MaxPriority == 2
MaxFailCalls == 4
MaxCallers == 2
MaxWorkers == 2
MaxCoordTasks == 3
MaxCoordIds == 4
MaxRuns == 2
MaxStatusTasks == 3
MaxStatusWorkers == 1
MaxMembers == 3
MaxAvailability == 2
MaxStrategies == 2
MaxAttempt == 6
JitterSteps == 4
MaxAgentTasks == 2
MaxFixedRetries == 2

\* ------------------------------------------------------- program constants
MaxRetries == 3
BackoffBase == 2
BaseDelayMs == 1000

\* the time one Tick stands for
TickMs == 2 * BaseDelayMs

TaskIds == 1..MaxTasks
Priorities == 1..MaxPriority

\* QueuedTaskStatus
PENDING == "pending"
READY == "ready"
IN_PROGRESS == "in_progress"
COMPLETED == "completed"
FAILED == "failed"
RETRYING == "retrying"

NoTime == -1

\* The value of hget(task:<id>, 'data') for a key that does not exist.
NoTask ==
  [priority |-> 0, dependencies |-> {}, status |-> "absent",
   retryCount |-> 0, scheduledAt |-> NoTime]

\* Error messages, as the sequence of their words.
TransientError == <<"timeout">>
FatalError == <<"FATAL", "disk">>
NotFoundError == <<"handler", "NOT_FOUND">>
Errors == {TransientError, FatalError, NotFoundError}

VARIABLES
  task,          \* task:<id> hash, field 'data'
  deps,          \* deps:<id> Redis set
  zq,            \* taskqueue:pending sorted set: pairs <<score, member>>
  results,       \* ids with a result:<id> key
  completeCalls, \* history: ids passed to markComplete
  failCalls,     \* history: markFailed calls made on each existing task
  enqOrder,      \* history: ids in the order of their enqueue calls
  lastOp,        \* history: the last queue operation and the ids it returned
  run,           \* history: ids returned by the current run of dequeue calls
  runReady,      \* history: ids that were Ready when that run began
  call,          \* SpecRace: each caller's operation in progress, its locals
  handed,        \* SpecRace history: times each task was returned by dequeue
  completeDone,  \* SpecRace history: ids whose markComplete found the task
                 \* and has returned
  workers,       \* coordinator: Map<string, WorkerInfo>
  regOrder,      \* coordinator: the insertion order of the workers map
  pendingTasks,  \* coordinator: ITask[] buffer
  cresults,      \* coordinator: Map<taskId, IResult>, by success flag
  pendingPromises, \* coordinator: Map<taskId, waiter>, the waiter named by
                 \* the run that registered it
  waiters,       \* coordinator: the waits <<task, run>> neither fulfilled
                 \* nor timed out
  frames,        \* coordinator: the async calls suspended on I/O (a bag)
  micro,         \* coordinator: the continuations due to run, oldest first
  batch,         \* the continuations in micro all come from the Result
                 \* messages of the delivery in progress
  exec,          \* coordinator: the executeTasksInParallel calls
  inbox,         \* transport: tasks delivered to each worker, unanswered
                 \* (a bag)
  assigned,      \* history: task ids a caller has already used
  sent,          \* history: the sends begun, in order
  fresh,         \* history: per run, ids with a Result received since it began
  strategies,    \* router: TaskRouter.strategies, by strategy name
  lastAssignedIndex, \* RoundRobinStrategy.lastAssignedIndex of the domain
  team,          \* the members handed to the router
  routed,        \* history: the last findBestMember call
  rrLog,         \* history: the round-robin calls made on one list
  probe,         \* the calls made to the retry strategy and what they returned
  agent          \* a WorkerAgent: its fields, and the history of its executes

qvars == <<task, deps, zq, results>>
qhist == <<completeCalls, failCalls, enqOrder, lastOp, run, runReady>>
rvars == <<call, handed, completeDone>>
cvars == <<workers, regOrder, pendingTasks, cresults, pendingPromises, waiters,
           frames, micro, batch, exec, inbox, assigned, sent, fresh>>
tvars == <<strategies, lastAssignedIndex, team, routed, rrLog, probe, agent>>
vars == <<qvars, qhist, rvars, cvars, tvars>>

Callers == 1..MaxCallers

\* The operations that return no task are recorded as "update".
Op(op, ret) == [op |-> op, ret |-> ret]
Update == Op("update", <<>>)

\* ----------------------------------------------------------- Redis helpers

Exists(t) == task[t] # NoTask

Members == {p[2] : p \in zq}

ScoreOf(m) == (CHOOSE p \in zq : p[2] = m)[1]

\* ZRANGE key 0 -1: members by ascending score, equal scores in the
\* lexicographic order of the members.
ZBefore(p, q) == p[1] < q[1] \/ (p[1] = q[1] /\ p[2] < q[2])

RECURSIVE ZSorted(_)
ZSorted(S) ==
  IF S = {} THEN <<>>
  ELSE LET first == CHOOSE p \in S : \A q \in S \ {p} : ZBefore(p, q)
       IN <<first[2]>> \o ZSorted(S \ {first})

ZRange == ZSorted(zq)

RECURSIVE Pow(_, _)
Pow(b, n) == IF n = 0 THEN 1 ELSE b * Pow(b, n - 1)

\* const delay = Math.pow(2, task.retryCount) * 1000, in ticks
RetryDelay(retryCount) == (Pow(BackoffBase, retryCount) * BaseDelayMs) \div TickMs

\* ------------------------------------------------------------ getReadyTasks

\* A Retrying task whose retry delay has passed:
\* task.scheduledAt && task.scheduledAt.getTime() <= now
Promotable(t) ==
  /\ task[t].status = RETRYING
  /\ task[t].scheduledAt # NoTime
  /\ task[t].scheduledAt <= 0

\* the list getReadyTasks returns
ReadyList ==
  SelectSeq(ZRange, LAMBDA t : Exists(t) /\ (task[t].status = READY \/ Promotable(t)))

\* the store after getReadyTasks: the promoted tasks are written back as Ready
PromotedStore ==
  [t \in TaskIds |->
     IF t \in Members /\ Exists(t) /\ Promotable(t)
     THEN [task[t] EXCEPT !.status = READY]
     ELSE task[t]]

EndRun == run' = <<>> /\ runReady' = {}

GetReadyTasks ==
  /\ task' = PromotedStore
  /\ lastOp' = Op("getReadyTasks", ReadyList)
  /\ EndRun
  /\ UNCHANGED <<deps, zq, results, completeCalls, failCalls, enqOrder>>

\* ------------------------------------------------------------------ enqueue

\* status given by enqueue
InitialStatusPending(dependencies) == PENDING

InitialStatus(dependencies) == IF dependencies = {} THEN READY ELSE PENDING

\* score of the sorted-set entry: (task.priority || 0) * -1
Score(priority) == priority * (-1)

Enqueued == {enqOrder[i] : i \in 1..Len(enqOrder)}

Enqueue(t, priority, dependencies) ==
  /\ t \notin Enqueued
  /\ task' = [task EXCEPT ![t] =
                [priority |-> priority, dependencies |-> dependencies,
                 status |-> InitialStatus(dependencies),
                 retryCount |-> 0, scheduledAt |-> NoTime]]
  /\ deps' = IF dependencies # {}
             THEN [deps EXCEPT ![t] = deps[t] \cup dependencies]
             ELSE deps
  /\ zq' = {q \in zq : q[2] # t} \cup {<<Score(priority), t>>}
  /\ enqOrder' = Append(enqOrder, t)
  /\ lastOp' = Update
  /\ EndRun
  /\ UNCHANGED <<results, completeCalls, failCalls>>

\* ------------------------------------------------------------ dequeue, peek

\* const task = readyTasks[0]
DequeueChoiceLast(ready) == ready[Len(ready)]

DequeueChoice(ready) == ready[1]

\* the status dequeue writes to the task it returns
DequeueStatus == IN_PROGRESS

ReadyNow == {t \in TaskIds : Exists(t) /\ task[t].status = READY}

Dequeue ==
  LET ready == ReadyList
      first == lastOp.op # "dequeue"
  IN /\ IF ready = <<>>
        THEN /\ task' = PromotedStore
             /\ lastOp' = Op("dequeue", <<>>)
             /\ run' = IF first THEN <<>> ELSE run
        ELSE LET t == DequeueChoice(ready)
             IN /\ task' = [PromotedStore EXCEPT ![t].status = DequeueStatus]
                /\ lastOp' = Op("dequeue", <<t>>)
                /\ run' = IF first THEN <<t>> ELSE Append(run, t)
     /\ runReady' = IF first THEN ReadyNow ELSE runReady
     /\ UNCHANGED <<deps, zq, results, completeCalls, failCalls, enqOrder>>

\* return readyTasks[0] || null
PeekChoiceLast(ready) == IF ready = <<>> THEN <<>> ELSE <<ready[Len(ready)]>>

PeekChoice(ready) == IF ready = <<>> THEN <<>> ELSE <<ready[1]>>

Peek ==
  LET ready == ReadyList
  IN /\ task' = PromotedStore
     /\ lastOp' = Op("peek", PeekChoice(ready))
     /\ EndRun
     /\ UNCHANGED <<deps, zq, results, completeCalls, failCalls, enqOrder>>

\* ------------------------------------------- markComplete, resolveDependencies

\* the sorted set after zrem(taskqueue:pending, id)
ZRem(id) == {q \in zq : q[2] # id}

\* resolveDependencies(completedTaskId) run on store tk and sorted set z:
\* the deps sets after it
ResolvedDeps(z, completedTaskId) ==
  [m \in TaskIds |->
     IF m \in {q[2] : q \in z} /\ completedTaskId \in deps[m]
     THEN deps[m] \ {completedTaskId}
     ELSE deps[m]]

\* ... and the task hashes after it
ResolvedTasks(tk, z, completedTaskId) ==
  [m \in TaskIds |->
     IF /\ m \in {q[2] : q \in z}
        /\ completedTaskId \in deps[m]
        /\ deps[m] \ {completedTaskId} = {}
        /\ tk[m] # NoTask
        /\ tk[m].status = PENDING
     THEN [tk[m] EXCEPT !.status = READY]
     ELSE tk[m]]

MarkComplete(id) ==
  LET completed == IF Exists(id)
                   THEN [task EXCEPT ![id].status = COMPLETED]
                   ELSE task
  IN /\ zq' = ZRem(id)
     /\ results' = results \cup {id}
     /\ deps' = ResolvedDeps(ZRem(id), id)
     /\ task' = ResolvedTasks(completed, ZRem(id), id)
     /\ completeCalls' = completeCalls \cup {id}
     /\ lastOp' = Update
     /\ EndRun
     /\ UNCHANGED <<failCalls, enqOrder>>

\* --------------------------------------------------------------- retry policy

\* const fatalErrors = ['FATAL', 'INVALID', 'UNAUTHORIZED', 'NOT_FOUND']
FatalErrors == {"FATAL", "INVALID", "UNAUTHORIZED", "NOT_FOUND"}

\* error.message.includes(word), on a message given as its words
Includes(message, word) == \E i \in 1..Len(message) : message[i] = word

\* DEFAULT_RETRY_POLICY.maxRetries
PolicyMaxRetries == 3

\* ExponentialBackoffStrategy.shouldRetry
ShouldRetryCount(attempt, error) == attempt < PolicyMaxRetries

ShouldRetry(attempt, error) ==
  IF \E fatal \in FatalErrors : Includes(error, fatal)
  THEN FALSE
  ELSE attempt < PolicyMaxRetries

\* the messages of the errors given to shouldRetry
RetryErrors ==
  Errors \cup {<<"INVALID", "input">>, <<"UNAUTHORIZED">>, <<"fatal">>}

\* DEFAULT_RETRY_POLICY
PolicyBaseDelayMs == 1000
PolicyMaxDelayMs == 30000
PolicyBackoffMultiplier == 2

\* ExponentialBackoffStrategy.getDelay, Math.random() having returned
\* jitter / JitterSteps
GetDelayCapFirst(attempt, jitter) ==
  LET delay == PolicyBaseDelayMs * Pow(PolicyBackoffMultiplier, attempt)
      capped == IF delay < PolicyMaxDelayMs THEN delay ELSE PolicyMaxDelayMs
  IN capped + (delay * jitter) \div (10 * JitterSteps)

GetDelay(attempt, jitter) ==
  LET delay == PolicyBaseDelayMs * Pow(PolicyBackoffMultiplier, attempt)
      withJitter == delay + (delay * jitter) \div (10 * JitterSteps)
  IN IF withJitter < PolicyMaxDelayMs THEN withJitter ELSE PolicyMaxDelayMs

\* no call made yet
NoProbe ==
  [asked |-> FALSE, attempt |-> 0, error |-> <<>>, retry |-> FALSE,
   delays |-> <<>>]

notRetry ==
  <<qvars, qhist, rvars, cvars, strategies, lastAssignedIndex, team, routed,
    rrLog, agent>>

\* a call of shouldRetry(attempt, error)
ShouldRetryCall(attempt, error) ==
  /\ probe' = [probe EXCEPT !.asked = TRUE, !.attempt = attempt,
                            !.error = error,
                            !.retry = ShouldRetry(attempt, error)]
  /\ UNCHANGED notRetry

\* a call of getDelay(attempt); the last two calls are kept
GetDelayCall(attempt, jitter) ==
  LET this == [attempt |-> attempt, jitter |-> jitter,
               delay |-> GetDelay(attempt, jitter)]
  IN /\ probe' = [probe EXCEPT !.delays = IF Len(@) = 2
                                          THEN <<@[2], this>>
                                          ELSE Append(@, this)]
     /\ UNCHANGED notRetry

NextRetry ==
  \/ \E attempt \in 0..MaxAttempt, error \in RetryErrors :
       ShouldRetryCall(attempt, error)
  \/ \E attempt \in 0..MaxAttempt, jitter \in 0..JitterSteps :
       GetDelayCall(attempt, jitter)

\* ---------------------------------------------------------------- markFailed

\* if (task.retryCount < task.maxRetries), retryCount already incremented
QueueShouldRetryLe(retryCount, error) == retryCount <= MaxRetries

QueueShouldRetry(retryCount, error) == retryCount < MaxRetries

FailedTask(t, error) ==
  LET retryCount == task[t].retryCount + 1
  IN IF QueueShouldRetry(retryCount, error)
     THEN [task[t] EXCEPT !.retryCount = retryCount,
                          !.status = RETRYING,
                          !.scheduledAt = RetryDelay(retryCount)]
     ELSE [task[t] EXCEPT !.retryCount = retryCount, !.status = FAILED]

MarkFailed(id, error) ==
  /\ failCalls[id] < MaxFailCalls
  /\ IF Exists(id)
     THEN /\ task' = [task EXCEPT ![id] = FailedTask(id, error)]
          /\ failCalls' = [failCalls EXCEPT ![id] = @ + 1]
     ELSE UNCHANGED <<task, failCalls>>
  /\ lastOp' = Update
  /\ EndRun
  /\ UNCHANGED <<deps, zq, results, completeCalls, enqOrder>>

\* ---------------------------------------------------------------------- time

\* TickMs pass
Waiting(t) == Exists(t) /\ task[t].scheduledAt > 0

Tick ==
  /\ \E t \in TaskIds : Waiting(t)
  /\ task' = [t \in TaskIds |->
                IF Waiting(t)
                THEN [task[t] EXCEPT !.scheduledAt = @ - 1]
                ELSE task[t]]
  /\ UNCHANGED <<deps, zq, results, qhist>>

\* --------------------------------------------------------------- coordinator
\* CoordinatorAgent without a task queue.  JavaScript runs a piece of code to
\* its next await; a continuation that waits for I/O (the broker's send) is in
\* frames and resumes at any later time, a continuation of an await on a value
\* that is already there is in micro and runs, first in first out, before any
\* other event is taken.  The broker hands the messages it has polled to
\* handleMessage one after the other without awaiting the handlers.

WorkerIds == 1..MaxWorkers
CTaskIds == 1..MaxCoordIds

\* the task that pendingTasks.shift() gives on an empty buffer
UndefinedTask == 0

\* AgentStatus
IDLE == "idle"
BUSY == "busy"
OFFLINE == "offline"
ERROR == "error"

\* successRate, an exact fraction <<numerator, denominator>> in lowest terms
RECURSIVE Gcd(_, _)
Gcd(a, b) == IF b = 0 THEN a ELSE Gcd(b, a % b)

Frac(n, d) == LET g == Gcd(n, d) IN <<n \div g, d \div g>>

One == <<1, 1>>

\* workers.get(id) for an id that is not registered
NoWorker == [status |-> "unregistered", taskCount |-> 0, successRate |-> One]

\* registerWorker: status Idle, taskCount 0, successRate 1
NewWorker == [status |-> IDLE, taskCount |-> 0, successRate |-> One]

NoResult == "none"

Runs == 1..MaxRuns

\* no run, in a frame or as the owner of a waiter
NoRun == 0

\* an executeTasksInParallel call that has not been made: its tasks and
\* their dependencies (input), remainingTasks, the keys of its results map,
\* the members of the current wave, those whose Result Promise.all has, the
\* number of waves begun, the members that found no worker, and the error
\* the call ended with
NoExec ==
  [status |-> "none", error |-> "none",
   input |-> [tasks |-> {}, deps |-> [t \in CTaskIds |-> {}]],
   remaining |-> {}, results |-> {}, wave |-> {}, got |-> {}, waves |-> 0,
   unserved |-> {}]

Registered(w) == workers[w] # NoWorker

\* b[1].successRate - a[1].successRate < 0: a sorts before b
Better(a, b) == workers[a].successRate[1] * workers[b].successRate[2]
                  > workers[b].successRate[1] * workers[a].successRate[2]

\* a stable insertion of w into the sorted list done
RECURSIVE SortedInsert(_, _)
SortedInsert(done, w) ==
  IF done = <<>> THEN <<w>>
  ELSE IF Better(w, Head(done)) THEN <<w>> \o done
  ELSE <<Head(done)>> \o SortedInsert(Tail(done), w)

RECURSIVE SortByRate(_)
SortByRate(list) ==
  IF list = <<>> THEN <<>>
  ELSE SortedInsert(SortByRate(SubSeq(list, 1, Len(list) - 1)), list[Len(list)])

\* getAvailableWorkers: the Idle workers, in map order
AvailableWorkers == SelectSeq(regOrder, LAMBDA w : workers[w].status = IDLE)

\* getWorkersByPerformance: the Idle workers, best successRate first
WorkersByPerformance == SortByRate(AvailableWorkers)

\* a suspended async call of the coordinator; run is the
\* executeTasksInParallel call it belongs to, hops the turns of the
\* continuation queue a promise chain still takes
Frame(kind, t, w, owner, avail) ==
  [kind |-> kind, task |-> t, worker |-> w, owner |-> owner, avail |-> avail,
   run |-> 0, hops |-> 0]

\* await this.messageBroker.send(taskMessage) in assignTask
SendFrame(t, w, owner) == Frame("send", t, w, owner, <<>>)

\* await this.getAvailableWorkers() in processPendingTasks
AvailFrame == Frame("avail", UndefinedTask, 0, "pp", AvailableWorkers)

\* await this.assignTask(task, available[0]) in processPendingTasks
LoopFrame == Frame("loop", UndefinedTask, 0, "pp", <<>>)

\* await this.getWorkersByPerformance() in a member of a wave
PickFrame(t) == Frame("pick", t, 0, "wave", WorkersByPerformance)

\* await this.assignTask(task, workers[0]) in a member of a wave
WaitFrame(t) == Frame("wait", t, 0, "wave", <<>>)

\* the promise of waitForResult is fulfilled: the member's promise and then
\* its slot of Promise.all are, hops turns later
SettleFrame(t, r, hops) ==
  [Frame("settle", t, 0, "wave", <<>>) EXCEPT !.run = r, !.hops = hops]

\* await Promise.all(promises) in executeTasksInParallel
AllFrame(r) == [Frame("all", UndefinedTask, 0, "wave", <<>>) EXCEPT !.run = r]

Suspended == BagToSet(frames)

Without(f) == frames (-) SetToBag({f})

With(f) == frames (+) SetToBag({f})

\* processPendingTasks at the head of its loop: it returns when the buffer is
\* empty and otherwise awaits getAvailableWorkers()
PendingLoop(queue, pending) ==
  IF pending = <<>> THEN queue ELSE Append(queue, AvailFrame)

\* no continuation is waiting to run: the next event can be taken
Quiet == micro = <<>>

\* the oldest waiting continuation, which runs next, and those behind it
due == Head(micro)

later == Tail(micro)

Due(kind) == micro # <<>> /\ due.kind = kind

RegisterWorker(w) ==
  /\ Quiet
  /\ workers' = [workers EXCEPT ![w] = NewWorker]
  /\ regOrder' = IF \E i \in 1..Len(regOrder) : regOrder[i] = w
                 THEN regOrder
                 ELSE Append(regOrder, w)
  /\ batch' = FALSE
  /\ UNCHANGED <<pendingTasks, cresults, pendingPromises, waiters, frames,
                 micro, exec, inbox, assigned, sent, fresh>>

\* assignTask(task, agentId) up to its await, after the worker was found:
\* the task is buffered, or the send of its message starts
AssignLost(t, w, owner, r, queue, after) ==
  IF workers[w].status # IDLE
  THEN /\ micro' = after
       /\ UNCHANGED <<pendingTasks, frames, sent>>
  ELSE /\ frames' = With([SendFrame(t, w, owner) EXCEPT !.run = r])
       /\ sent' = Append(sent, [task |-> t, worker |-> w, run |-> r])
       /\ micro' = queue
       /\ UNCHANGED pendingTasks

Assign(t, w, owner, r, queue, after) ==
  IF workers[w].status # IDLE
  THEN /\ pendingTasks' = Append(pendingTasks, t)
       /\ micro' = after
       /\ UNCHANGED <<frames, sent>>
  ELSE /\ frames' = With([SendFrame(t, w, owner) EXCEPT !.run = r])
       /\ sent' = Append(sent, [task |-> t, worker |-> w, run |-> r])
       /\ micro' = queue
       /\ UNCHANGED pendingTasks

\* how assignTask(task, agentId) ends for its caller: with the error
\* 'Worker inconnu' when workers.get(agentId) finds nothing
AssignTaskEndReturns(w) == "returns"

AssignTaskEnd(w) == IF Registered(w) THEN "returns" ELSE "Worker inconnu"

\* assignTask(task, agentId) called from outside
AssignTask(t, w) ==
  /\ Quiet
  /\ t \notin assigned
  /\ assigned' = assigned \cup {t}
  /\ batch' = FALSE
  /\ IF AssignTaskEnd(w) = "returns"
     THEN Assign(t, w, "ext", 0, micro, micro)
     ELSE UNCHANGED <<pendingTasks, frames, micro, sent>>
  /\ UNCHANGED <<workers, regOrder, cresults, pendingPromises, waiters, exec,
                 inbox, fresh>>

\* await this.getAvailableWorkers() in createTask
CreateFrame(t) == Frame("create", t, 0, "ext", AvailableWorkers)

\* createTask(content, priority) without a task queue, up to its first await
CreateTask(t) ==
  /\ Quiet
  /\ t \notin assigned
  /\ assigned' = assigned \cup {t}
  /\ micro' = Append(micro, CreateFrame(t))
  /\ batch' = FALSE
  /\ UNCHANGED <<workers, regOrder, pendingTasks, cresults, pendingPromises,
                 waiters, frames, exec, inbox, sent, fresh>>

\* createTask after await getAvailableWorkers(): the task is buffered when
\* no worker is available, else assignTask(task, available[0]) up to its
\* await
CreateResume ==
  /\ Due("create")
  /\ batch' = FALSE
  /\ IF due.avail = <<>>
     THEN /\ pendingTasks' = Append(pendingTasks, due.task)
          /\ micro' = later
          /\ UNCHANGED <<frames, sent>>
     ELSE Assign(due.task, due.avail[1], "ext", 0, later, later)
  /\ UNCHANGED <<workers, regOrder, cresults, pendingPromises, waiters, exec,
                 inbox, assigned, fresh>>

\* processTaskQueue suspended in its loop: workers is the list it took, i the
\* index of the loop and tasksToProcess its bound (kept in hops and run)
PtqFrame(workerList, i, tasksToProcess) ==
  [Frame("ptq", UndefinedTask, 0, "ptq", workerList) EXCEPT
     !.hops = i, !.run = tasksToProcess]

\* the calls suspended after iteration i of processTaskQueue's loop: the next
\* dequeue, or none when the loop is over
PtqLoop(f) ==
  IF f.hops + 1 < f.run
  THEN SetToBag({PtqFrame(f.avail, f.hops + 1, f.run)})
  ELSE EmptyBag

\* the send of assignTask is done: the message is with the worker, which
\* ignores a message that has no type; worker.status = BUSY, taskCount++, and
\* the caller of assignTask is due to go on
SendDone(f) ==
  /\ Quiet
  /\ f \in Suspended
  /\ f.kind = "send"
  /\ frames' = IF f.owner = "ptq" THEN Without(f) (+) PtqLoop(f) ELSE Without(f)
  /\ workers' = [workers EXCEPT ![f.worker].status = BUSY,
                                ![f.worker].taskCount = @ + 1]
  /\ inbox' = IF f.task = UndefinedTask
              THEN inbox
              ELSE [inbox EXCEPT ![f.worker] = @ (+) SetToBag({f.task})]
  /\ micro' = CASE f.owner = "pp" /\ f.task # UndefinedTask -> <<LoopFrame>>
                [] f.owner = "wave" -> <<[WaitFrame(f.task) EXCEPT !.run = f.run]>>
                [] OTHER -> <<>>
  /\ batch' = FALSE
  /\ UNCHANGED <<regOrder, pendingTasks, cresults, pendingPromises, waiters,
                 exec, assigned, sent, fresh>>

\* worker.successRate after a Result, taskCount being n
NewSuccessRateAll(rate, n, success) ==
  IF n > 0
  THEN Frac(rate[1] * n + (IF success THEN rate[2] ELSE 0), rate[2] * n)
  ELSE One

NewSuccessRate(rate, n, success) ==
  IF n > 0
  THEN Frac(rate[1] * (n - 1) + (IF success THEN rate[2] ELSE 0), rate[2] * n)
  ELSE One

\* the runs of executeTasksInParallel that have been started
Started == {r \in Runs : exec[r].status # "none"}

\* handleMessage for a RESULT message of worker w about task t, up to its
\* first await
ResultIntake(w, t, success) ==
  /\ Quiet \/ batch
  /\ BagIn(t, inbox[w])
  /\ inbox' = [inbox EXCEPT ![w] = @ (-) SetToBag({t})]
  /\ cresults' = [cresults EXCEPT ![t] = IF success THEN "ok" ELSE "fail"]
  /\ workers' = IF Registered(w)
                 THEN [workers EXCEPT
                         ![w].status = IDLE,
                         ![w].successRate =
                            NewSuccessRate(@, workers[w].taskCount, success)]
                 ELSE workers
  /\ pendingPromises' = [pendingPromises EXCEPT ![t] = NoRun]
  /\ waiters' = waiters \ {<<t, pendingPromises[t]>>}
  /\ fresh' = [r \in Runs |-> IF r \in Started THEN fresh[r] \cup {t} ELSE fresh[r]]
  /\ LET resolved == IF pendingPromises[t] # NoRun
                     THEN Append(micro, SettleFrame(t, pendingPromises[t], 2))
                     ELSE micro
     IN micro' = IF pendingTasks = <<>>
                 THEN resolved
                 ELSE Append(resolved, [AvailFrame EXCEPT
                        !.avail = SelectSeq(regOrder,
                                    LAMBDA v : workers'[v].status = IDLE)])
  /\ batch' = TRUE
  /\ UNCHANGED <<regOrder, pendingTasks, frames, exec, assigned, sent>>

\* processPendingTasks after await getAvailableWorkers(): break, or shift a
\* task and assignTask(task, available[0]) up to its await
PendingResume ==
  /\ Due("avail")
  /\ batch' = FALSE
  /\ IF due.avail = <<>>
     THEN /\ micro' = later
          /\ UNCHANGED <<pendingTasks, frames, sent>>
     ELSE LET t == IF pendingTasks = <<>> THEN UndefinedTask ELSE Head(pendingTasks)
              rest == IF pendingTasks = <<>> THEN <<>> ELSE Tail(pendingTasks)
              w == due.avail[1]
          IN IF workers[w].status # IDLE
             THEN /\ pendingTasks' = Append(rest, t)
                  /\ micro' = IF t = UndefinedTask THEN later
                              ELSE Append(later, LoopFrame)
                  /\ UNCHANGED <<frames, sent>>
             ELSE /\ pendingTasks' = rest
                  /\ frames' = With(SendFrame(t, w, "pp"))
                  /\ sent' = Append(sent, [task |-> t, worker |-> w, run |-> NoRun])
                  /\ micro' = later
  /\ UNCHANGED <<workers, regOrder, cresults, pendingPromises, waiters, exec,
                 inbox, assigned, fresh>>

\* processPendingTasks after await assignTask(...): the head of the loop
PendingAgain ==
  /\ Due("loop")
  /\ batch' = FALSE
  /\ micro' = PendingLoop(later, pendingTasks)
  /\ UNCHANGED <<workers, regOrder, pendingTasks, cresults, pendingPromises,
                 waiters, frames, exec, inbox, assigned, sent, fresh>>

\* the values of AgentStatus
AgentStatuses == {IDLE, BUSY, OFFLINE, ERROR}

\* handleMessage for a STATUS message of worker w:
\* updateWorkerStatus(message.from, message.content)
StatusIntake(w, status) ==
  /\ Quiet \/ batch
  /\ workers' = IF Registered(w)
                 THEN [workers EXCEPT ![w].status = status]
                 ELSE workers
  /\ batch' = TRUE
  /\ UNCHANGED <<regOrder, pendingTasks, cresults, pendingPromises, waiters,
                 frames, micro, exec, inbox, assigned, sent, fresh>>

\* ------------------------------------------------------- processTaskQueue

\* const tasksToProcess = Math.min(readyTasks.length, workers.length)
TasksToProcess(readyCount, workerCount) ==
  IF readyCount < workerCount THEN readyCount ELSE workerCount

\* workers[i], i counted from 0
NthWorkerFirst(workerList, i) == workerList[1]

NthWorker(workerList, i) == workerList[i + 1]

\* processTaskQueue of a coordinator that has a task queue, to the first
\* dequeue of its loop
ProcessTaskQueue ==
  /\ Quiet
  /\ frames = EmptyBag
  /\ GetReadyTasks
  /\ LET tasksToProcess ==
           TasksToProcess(Len(ReadyList), Len(AvailableWorkers))
     IN frames' = IF tasksToProcess > 0
                  THEN SetToBag({PtqFrame(AvailableWorkers, 0, tasksToProcess)})
                  ELSE EmptyBag
  /\ batch' = FALSE
  /\ UNCHANGED <<workers, regOrder, pendingTasks, cresults, pendingPromises,
                 waiters, micro, exec, inbox, assigned, sent, fresh>>

\* an iteration of the loop: dequeue, and assignTask(task, workers[i]) up to
\* its await when a task came back
PtqDequeue(f) ==
  /\ Quiet
  /\ f \in Suspended
  /\ f.kind = "ptq"
  /\ Dequeue
  /\ batch' = FALSE
  /\ IF ReadyList = <<>>
     THEN /\ frames' = Without(f) (+) PtqLoop(f)
          /\ UNCHANGED <<pendingTasks, sent>>
     ELSE LET t == DequeueChoice(ReadyList)
              w == NthWorker(f.avail, f.hops)
          IN IF workers[w].status # IDLE
             THEN /\ pendingTasks' = Append(pendingTasks, t)
                  /\ frames' = Without(f) (+) PtqLoop(f)
                  /\ UNCHANGED sent
             ELSE /\ frames' = Without(f) (+)
                               SetToBag({[SendFrame(t, w, "ptq") EXCEPT
                                            !.avail = f.avail,
                                            !.hops = f.hops,
                                            !.run = f.run]})
                  /\ sent' = Append(sent, [task |-> t, worker |-> w,
                                           run |-> NoRun])
                  /\ UNCHANGED pendingTasks
  /\ UNCHANGED <<workers, regOrder, cresults, pendingPromises, waiters, micro,
                 exec, inbox, assigned, fresh>>

\* ------------------------------------------------- executeTasksInParallel

\* a batch: its task ids and the dependencies of each
Batch(ts, dependencies) == [tasks |-> ts, deps |-> dependencies]

NoDeps == [t \in CTaskIds |-> {}]

\* tasks without dependencies
Flat(ts) == Batch(ts, NoDeps)

\* X, Y depending on X, Z depending on Y
ChainBatch == Batch({1, 2, 3}, [NoDeps EXCEPT ![2] = {1}, ![3] = {2}])

\* two tasks depending on each other
CycleBatch == Batch({1, 2}, [NoDeps EXCEPT ![1] = {2}, ![2] = {1}])

\* a free task and two tasks depending on each other
TailCycleBatch == Batch({1, 2, 3}, [NoDeps EXCEPT ![2] = {3}, ![3] = {2}])

\* a free task and a task depending on an id that is not in the batch
MissingBatch == Batch({1, 2}, [NoDeps EXCEPT ![2] = {3}])

Batches ==
  {Flat({1}), Flat({1, 2}), ChainBatch, CycleBatch, TailCycleBatch, MissingBatch}

\* const pendingDeps = deps.filter(d => !results.has(d)); the tasks of
\* remaining that have none
ReadyTasksAll(b, remaining, done) == remaining

ReadyTasksSucceeded(b, remaining, done) ==
  {t \in remaining : b.deps[t] \ {d \in done : cresults[d] = "ok"} = {}}

ReadyTasksInBatch(b, remaining, done) ==
  {t \in remaining : b.deps[t] \ (done \cup b.tasks) = {}}

ReadyTasks(b, remaining, done) ==
  {t \in remaining : b.deps[t] \ done = {}}

\* the members of a wave, each run up to await getWorkersByPerformance()
RECURSIVE WaveMembers(_, _)
WaveMembers(ts, r) ==
  IF ts = {} THEN <<>>
  ELSE LET t == CHOOSE x \in ts : \A y \in ts : x <= y
       IN <<[PickFrame(t) EXCEPT !.run = r]>> \o WaveMembers(ts \ {t}, r)

\* the first error ends the call; its members go on
ExecFailed(e, error) ==
  IF e.status = "running"
  THEN [e EXCEPT !.status = "failed", !.error = error]
  ELSE e

\* the while loop of executeTasksInParallel from its head to its next await,
\* for the call e with the continuations queue waiting
ExecLoop(r, e, queue) ==
  LET ready == ReadyTasks(e.input, e.remaining, e.results)
  IN IF e.remaining = {}
     THEN /\ exec' = [exec EXCEPT ![r] = [e EXCEPT !.status = "done"]]
          /\ micro' = queue
     ELSE IF ready = {}
     THEN /\ exec' = [exec EXCEPT ![r] = ExecFailed(e, "cycle")]
          /\ micro' = queue
     ELSE /\ exec' = [exec EXCEPT ![r] =
                        [e EXCEPT !.wave = ready, !.got = {}, !.waves = @ + 1]]
          /\ micro' = queue \o WaveMembers(ready, r)

\* executeTasksInParallel(tasks) up to its first await
ExecuteTasksInParallel(r, b) ==
  /\ Quiet
  /\ exec[r].status = "none"
  /\ batch' = FALSE
  /\ ExecLoop(r, [NoExec EXCEPT !.status = "running", !.input = b,
                                !.remaining = b.tasks], micro)
  /\ assigned' = assigned \cup b.tasks
  /\ UNCHANGED <<workers, regOrder, pendingTasks, cresults, pendingPromises,
                 waiters, frames, inbox, sent, fresh>>

\* a member of the wave after await getWorkersByPerformance(): it throws when
\* the list is empty, else assignTask(task, workers[0]) up to its await
WavePick ==
  /\ Due("pick")
  /\ batch' = FALSE
  /\ IF due.avail = <<>>
     THEN /\ exec' = [exec EXCEPT ![due.run] =
                        [ExecFailed(@, "noworker") EXCEPT
                           !.unserved = @ \cup {due.task}]]
          /\ micro' = later
          /\ UNCHANGED <<pendingTasks, frames, sent>>
     ELSE /\ Assign(due.task, due.avail[1], "wave", due.run, later,
                    Append(later, [WaitFrame(due.task) EXCEPT !.run = due.run]))
          /\ UNCHANGED exec
  /\ UNCHANGED <<workers, regOrder, cresults, pendingPromises, waiters, inbox,
                 assigned, fresh>>

\* waitForResult(task.id): the Result that is there, or a waiter registered
\* under the task id, in the place of the one that was
WaitForResult ==
  /\ Due("wait")
  /\ batch' = FALSE
  /\ IF cresults[due.task] # NoResult
     THEN /\ micro' = Append(later, SettleFrame(due.task, due.run, 3))
          /\ UNCHANGED <<pendingPromises, waiters>>
     ELSE /\ micro' = later
          /\ pendingPromises' = [pendingPromises EXCEPT ![due.task] = due.run]
          /\ waiters' = waiters \cup {<<due.task, due.run>>}
  /\ UNCHANGED <<workers, regOrder, pendingTasks, cresults, frames, exec, inbox,
                 assigned, sent, fresh>>

\* a turn of the promise chain from waitForResult to Promise.all; at its end
\* the member's Result is in, and with the last one Promise.all is fulfilled
Settle ==
  /\ Due("settle")
  /\ batch' = FALSE
  /\ IF due.hops > 1
     THEN /\ micro' = Append(later, [due EXCEPT !.hops = @ - 1])
          /\ UNCHANGED exec
     ELSE LET got == exec[due.run].got \cup {due.task}
          IN /\ exec' = [exec EXCEPT ![due.run].got = got]
             /\ micro' = IF got = exec[due.run].wave
                            /\ exec[due.run].status = "running"
                         THEN Append(later, AllFrame(due.run))
                         ELSE later
  /\ UNCHANGED <<workers, regOrder, pendingTasks, cresults, pendingPromises,
                 waiters, frames, inbox, assigned, sent, fresh>>

\* for (const result of waveResults) results.set(result.taskId, result):
\* the ids the map holds after the wave
WaveStoredLast(stored, wave) == wave

WaveStored(stored, wave) == stored \cup wave

\* executeTasksInParallel after await Promise.all(promises): the Results of
\* the wave are stored, its tasks leave remainingTasks, and the loop goes on
WaveDone ==
  /\ Due("all")
  /\ batch' = FALSE
  /\ LET e == exec[due.run]
     IN ExecLoop(due.run,
                 [e EXCEPT !.results = WaveStored(@, e.wave),
                           !.remaining = @ \ e.wave],
                 later)
  /\ UNCHANGED <<workers, regOrder, pendingTasks, cresults, pendingPromises,
                 waiters, frames, inbox, assigned, sent, fresh>>

\* this.pendingPromises.delete(taskId) in the timeout of waitForResult
TimedOutKept(registered, t) == registered

TimedOut(registered, t) == [registered EXCEPT ![t] = NoRun]

\* the timeout of the wait of run r on task t: the entry under the task id
\* is deleted and the wait fails
WaitTimeout(t, r) ==
  /\ Quiet
  /\ <<t, r>> \in waiters
  /\ waiters' = waiters \ {<<t, r>>}
  /\ pendingPromises' = TimedOut(pendingPromises, t)
  /\ exec' = [exec EXCEPT ![r] = ExecFailed(@, "timeout")]
  /\ batch' = FALSE
  /\ UNCHANGED <<workers, regOrder, pendingTasks, cresults, frames, micro,
                 inbox, assigned, sent, fresh>>

\* --------------------------------------------------------------- task router
\* TaskRouter and the routing strategies.  A task is the set of the words of
\* its content; the domain is a cut of the Development domain.  The caller
\* holds one instance of each strategy class, named by the class's name.

\* ------------------------------------------------------- withRetry, the worker

\* what one invocation of fn does: it resolves with a value or rejects with
\* an error
Ok(value) == [ok |-> TRUE, value |-> value, error |-> <<>>]
Err(error) == [ok |-> FALSE, value |-> 0, error |-> error]

\* fn as the outcomes of its invocations in order, the last one repeated
FnBehaviours ==
  { <<Ok(1)>>,
    <<Err(TransientError), Ok(2)>>,
    <<Err(TransientError), Err(TransientError), Err(TransientError), Ok(1)>>,
    <<Err(TransientError)>>,
    <<Err(FatalError), Ok(1)>>,
    <<Err(TransientError), Err(NotFoundError), Ok(2)>>,
    <<Err(TransientError), Err(TransientError), Err(<<"reset">>)>> }

Invocation(fn, n) == IF n <= Len(fn) THEN fn[n] ELSE fn[Len(fn)]

\* the retry strategies: ExponentialBackoffStrategy with the default policy,
\* FixedDelayStrategy(delayMs, maxRetries), NoRetryStrategy
Exponential == [kind |-> "exponential", maxRetries |-> PolicyMaxRetries]
FixedDelay(maxRetries) == [kind |-> "fixed", maxRetries |-> maxRetries]
NoRetry == [kind |-> "none", maxRetries |-> 0]

RetryStrategies ==
  {Exponential, NoRetry} \cup {FixedDelay(n) : n \in 0..MaxFixedRetries}

\* strategy.shouldRetry(attempt, error)
StrategyShouldRetry(strategy, attempt, error) ==
  CASE strategy.kind = "exponential" -> ShouldRetry(attempt, error)
    [] strategy.kind = "fixed" -> attempt < strategy.maxRetries
    [] OTHER -> FALSE

\* withRetry(fn, strategy) from its attempt-th pass of the loop on: the
\* number of invocations of fn, and how the call ends
RECURSIVE WithRetryFrom(_, _, _)
WithRetryFrom(fn, strategy, attempt) ==
  LET this == Invocation(fn, attempt + 1)
  IN IF this.ok
     THEN [calls |-> attempt + 1, end |-> "returns", value |-> this.value,
           error |-> <<>>]
     ELSE IF ~StrategyShouldRetry(strategy, attempt, this.error)
          THEN [calls |-> attempt + 1, end |-> "throws", value |-> 0,
                error |-> this.error]
          ELSE WithRetryFrom(fn, strategy, attempt + 1)

WithRetry(fn, strategy) == WithRetryFrom(fn, strategy, 0)

AgentTaskIds == 1..MaxAgentTasks

\* task.content; the cache key is a hash of it
Contents == {"build", "deploy"}

\* the contents some registered handler can handle
Handled == {"build"}

\* throw new Error(`Pas de handler pour: ${task.content}`)
NoHandlerError == <<"Pas", "de", "handler">>

\* no withRetry call made yet
NoRetryRun ==
  [fn |-> <<>>, strategy |-> NoRetry,
   out |-> [calls |-> 0, end |-> "none", value |-> 0, error |-> <<>>]]

\* a WorkerAgent built from a broker: no cache, the default retry policy;
\* results: the RESULT messages sent, by task id
NewAgent ==
  [status |-> OFFLINE, hasCache |-> FALSE, cache |-> {},
   retryStrategy |-> Exponential,
   executedTaskCount |-> 0, failedTaskCount |-> 0,
   handled |-> {}, results |-> [t \in AgentTaskIds |-> <<>>],
   last |-> NoRetryRun]

notAgent ==
  <<qvars, qhist, rvars, cvars, strategies, lastAssignedIndex, team, routed,
    rrLog, probe>>

\* setCache(cache), with an empty cache
SetCache ==
  /\ agent' = [agent EXCEPT !.hasCache = TRUE, !.cache = {}]
  /\ UNCHANGED notAgent

\* setRetryStrategy(strategy)
SetRetryStrategy(strategy) ==
  /\ agent' = [agent EXCEPT !.retryStrategy = strategy]
  /\ UNCHANGED notAgent

\* an entry of the cache expires (ttl) or is invalidated
CacheExpire(content) ==
  /\ content \in agent.cache
  /\ agent' = [agent EXCEPT !.cache = @ \ {content}]
  /\ UNCHANGED notAgent

\* the RESULT messages execute sends for one task: createResult(task,
\* success, data) passed to messageBroker.send
SentOnPaths(cached, out) ==
  IF cached THEN <<>>
  ELSE IF out.end = "returns" THEN <<TRUE>> ELSE <<FALSE>>

\* handleMessage on a TASK message: execute(task), fn being what the
\* handler of the content does on its invocations
Execute(t, content, fn) ==
  LET cached == agent.hasCache /\ content \in agent.cache
      runs == IF content \in Handled THEN fn ELSE <<Err(NoHandlerError)>>
      out == WithRetry(runs, agent.retryStrategy)
      ran == [fn |-> runs, strategy |-> agent.retryStrategy, out |-> out]
  IN /\ t \notin agent.handled
     /\ agent' =
          [agent EXCEPT
             !.status = IDLE,
             !.handled = @ \cup {t},
             !.results[t] = @ \o SentOnPaths(cached, out),
             !.cache = IF ~cached /\ agent.hasCache /\ out.end = "returns"
                       THEN @ \cup {content} ELSE @,
             !.executedTaskCount =
                IF cached \/ out.end = "returns" THEN @ + 1 ELSE @,
             !.failedTaskCount =
                IF ~cached /\ out.end = "throws" THEN @ + 1 ELSE @,
             !.last = IF cached THEN @ ELSE ran]
     /\ UNCHANGED notAgent

NextWorker ==
  \/ SetCache
  \/ \E strategy \in RetryStrategies : SetRetryStrategy(strategy)
  \/ \E content \in Contents : CacheExpire(content)
  \/ \E t \in AgentTaskIds, content \in Contents, fn \in FnBehaviours :
       Execute(t, content, fn)

DomainId == "development"

Words == {"code", "plan"}

\* config.routingRules, in the order they were added
RoutingRules ==
  <<[keywords |-> {"plan"}, targetRoles |-> {"lead"}, priority |-> 5],
    [keywords |-> {"code"}, targetRoles |-> {"developer"}, priority |-> 10]>>

\* config.roles: the skills of each role
RoleSkills(roleId) ==
  CASE roleId = "developer" -> {"code", "implement"}
    [] roleId = "lead" -> {"planning"}
    [] OTHER -> {}

DefaultRole == "developer"

\* the members a caller has: member i with its role and skills
TeamMember(i, domainId, availability) ==
  [id |-> i,
   roleId |-> CASE i = 1 -> "lead" [] i = 2 -> "developer" [] OTHER -> "tester",
   skills |-> IF i = 2 THEN {} ELSE {"code"},
   domainId |-> domainId,
   availability |-> availability]

\* undefined, as the member a route returns
NoMember == 0

StrategyNames == {"keyword", "skill-matching", "round-robin"}

\* the strategies the constructor of TaskRouter adds
DefaultStrategies == <<"keyword", "skill-matching">>

\* lastAssignedIndex.get(domainId) ?? -1
NoIndex == -1

NotRouted == [consulted |-> <<>>, found |-> NoMember]

NoCalls == [list |-> <<>>, picks |-> <<>>]

Available(members) == SelectSeq(members, LAMBDA m : m.availability > 0)

\* list.sort((a, b) => b.availability - a.availability)[0], the sort being
\* stable: the first member of the highest availability
MostAvailable(list) ==
  LET i == CHOOSE i \in 1..Len(list) :
             /\ \A j \in 1..Len(list) : list[j].availability <= list[i].availability
             /\ \A j \in 1..(i - 1) : list[j].availability < list[i].availability
  IN list[i]

\* [...config.routingRules].sort((a, b) => b.priority - a.priority)
RECURSIVE SortedRules(_)
SortedRules(rules) ==
  IF rules = <<>> THEN <<>>
  ELSE LET i == CHOOSE i \in 1..Len(rules) :
                  /\ \A j \in 1..Len(rules) : rules[j].priority <= rules[i].priority
                  /\ \A j \in 1..(i - 1) : rules[j].priority < rules[i].priority
       IN <<rules[i]>> \o
            SortedRules(SubSeq(rules, 1, i - 1) \o SubSeq(rules, i + 1, Len(rules)))

\* KeywordRoutingStrategy.route
RECURSIVE KeywordMatch(_, _, _)
KeywordMatch(rules, content, members) ==
  IF rules = <<>> THEN NoMember
  ELSE LET rule == Head(rules)
           eligibleMembers ==
             SelectSeq(members, LAMBDA m : m.roleId \in rule.targetRoles
                                           /\ m.availability > 0)
       IN IF rule.keywords \cap content # {} /\ eligibleMembers # <<>>
          THEN MostAvailable(eligibleMembers).id
          ELSE KeywordMatch(Tail(rules), content, members)

KeywordRoute(content, members) ==
  KeywordMatch(SortedRules(RoutingRules), content, members)

\* SkillMatchingStrategy.route
SkillScore(m, content) ==
  Cardinality(m.skills \cap content)
    + Cardinality(RoleSkills(m.roleId) \cap content)

SkillRoute(content, members) ==
  LET scored == SelectSeq(Available(members),
                          LAMBDA m : SkillScore(m, content) > 0)
  IN IF scored = <<>> THEN NoMember
     ELSE LET i == CHOOSE i \in 1..Len(scored) :
                     /\ \A j \in 1..Len(scored) :
                          \/ SkillScore(scored[j], content) < SkillScore(scored[i], content)
                          \/ /\ SkillScore(scored[j], content) = SkillScore(scored[i], content)
                             /\ scored[j].availability <= scored[i].availability
                     /\ \A j \in 1..(i - 1) :
                          \/ SkillScore(scored[j], content) < SkillScore(scored[i], content)
                          \/ scored[j].availability < scored[i].availability
          IN scored[i].id

\* RoundRobinStrategy.route: the index it stores, and the member it returns
NextIndexSame(last, count) == IF last = NoIndex THEN 0 ELSE last % count

NextIndex(last, count) == (last + 1) % count

RoundRobinIndex(members, last) ==
  IF Available(members) = <<>> THEN last
  ELSE NextIndex(last, Len(Available(members)))

RoundRobinRoute(members, last) ==
  IF Available(members) = <<>> THEN NoMember
  ELSE Available(members)[RoundRobinIndex(members, last) + 1].id

\* strategy.route(task, domainMembers, this.domainConfig)
Route(strategy, content, members, last) ==
  CASE strategy = "keyword" -> KeywordRoute(content, members)
    [] strategy = "skill-matching" -> SkillRoute(content, members)
    [] OTHER -> RoundRobinRoute(members, last)

\* the loop over this.strategies: the strategies consulted, the member found
\* and the round-robin index left behind
RECURSIVE RouteLoopLast(_, _, _, _, _)
RouteLoopLast(list, content, members, last, sofar) ==
  IF list = <<>> THEN sofar
  ELSE LET member == Route(Head(list), content, members, last)
           index == IF Head(list) = "round-robin"
                    THEN RoundRobinIndex(members, last)
                    ELSE last
       IN RouteLoopLast(Tail(list), content, members, index,
            [consulted |-> Append(sofar.consulted, Head(list)),
             found |-> IF member # NoMember THEN member ELSE sofar.found,
             index |-> index])

RECURSIVE RouteLoop(_, _, _, _, _)
RouteLoop(list, content, members, last, sofar) ==
  IF list = <<>> THEN sofar
  ELSE LET member == Route(Head(list), content, members, last)
           index == IF Head(list) = "round-robin"
                    THEN RoundRobinIndex(members, last)
                    ELSE last
           now == [consulted |-> Append(sofar.consulted, Head(list)),
                   found |-> member,
                   index |-> index]
       IN IF member # NoMember THEN now
          ELSE RouteLoop(Tail(list), content, members, index, now)

\* domainMembers.find(m => m.roleId === defaultRole && m.availability > 0)
DefaultMember(members) ==
  LET hits == SelectSeq(members, LAMBDA m : m.roleId = DefaultRole
                                            /\ m.availability > 0)
  IN IF hits = <<>> THEN NoMember ELSE hits[1].id

\* domainMembers.find(m => m.availability > 0)
AnyAvailable(members) ==
  IF Available(members) = <<>> THEN NoMember ELSE Available(members)[1].id

\* what findBestMember returns when no strategy has found a member
FallbackAny(members) == AnyAvailable(members)

Fallback(members) ==
  IF DefaultMember(members) # NoMember
  THEN DefaultMember(members)
  ELSE AnyAvailable(members)

DomainMembersAll(members) == members

DomainMembers(members) == SelectSeq(members, LAMBDA m : m.domainId = DomainId)

\* the log of the round-robin calls a caller makes in a row, after a call on
\* members that chose pick: it goes on while the list of available members
\* is the same, for one more call than the list has members
Logged(members, pick) ==
  LET list == [i \in 1..Len(Available(members)) |-> Available(members)[i].id]
  IN IF pick = NoMember THEN rrLog
     ELSE IF rrLog.list = list /\ Len(rrLog.picks) <= Len(list)
     THEN [rrLog EXCEPT !.picks = Append(@, pick)]
     ELSE [list |-> list, picks |-> <<pick>>]

AddStrategy(strategy) ==
  /\ Len(strategies) < MaxStrategies
  /\ strategies' = Append(strategies, strategy)
  /\ UNCHANGED <<lastAssignedIndex, team, routed, rrLog>>

\* this.strategies.findIndex(s => s.name === name)
FindIndex(name) ==
  IF \E i \in 1..Len(strategies) : strategies[i] = name
  THEN CHOOSE i \in 1..Len(strategies) :
         strategies[i] = name /\ \A j \in 1..(i - 1) : strategies[j] # name
  ELSE 0

RemoveStrategy(name) ==
  /\ strategies' =
       IF FindIndex(name) # 0
       THEN SubSeq(strategies, 1, FindIndex(name) - 1)
              \o SubSeq(strategies, FindIndex(name) + 1, Len(strategies))
       ELSE strategies
  /\ UNCHANGED <<lastAssignedIndex, team, routed, rrLog>>

SetStrategies(list) ==
  /\ strategies' = list
  /\ UNCHANGED <<lastAssignedIndex, team, routed, rrLog>>

FindBestMember(content) ==
  LET domainMembers == DomainMembers(team)
      start == [consulted |-> <<>>, found |-> NoMember,
                index |-> lastAssignedIndex]
      loop == IF domainMembers = <<>> THEN start
              ELSE RouteLoop(strategies, content, domainMembers,
                             lastAssignedIndex, start)
      found == IF loop.found # NoMember \/ domainMembers = <<>>
               THEN loop.found
               ELSE Fallback(domainMembers)
  IN /\ routed' = [consulted |-> loop.consulted, found |-> found]
     /\ lastAssignedIndex' = loop.index
     /\ rrLog' = IF \E i \in 1..Len(loop.consulted) :
                         loop.consulted[i] = "round-robin"
                 THEN NoCalls
                 ELSE rrLog
     /\ UNCHANGED <<strategies, team>>

\* RoundRobinStrategy.route called by a caller of its own, on the team
RoundRobin ==
  /\ lastAssignedIndex' = RoundRobinIndex(team, lastAssignedIndex)
  /\ rrLog' = Logged(team, RoundRobinRoute(team, lastAssignedIndex))
  /\ UNCHANGED <<strategies, team, routed>>

\* RoundRobinStrategy.reset
RoundRobinReset ==
  /\ lastAssignedIndex' = NoIndex
  /\ rrLog' = NoCalls
  /\ UNCHANGED <<strategies, team, routed>>

\* the caller's members change: a member's availability, or its domain
ChangeMember(i, domainId, availability) ==
  /\ team' = [team EXCEPT ![i] = TeamMember(i, domainId, availability)]
  /\ UNCHANGED <<strategies, lastAssignedIndex, routed, rrLog>>

\* the lists a caller passes to setStrategies
StrategyLists == {<<>>, <<"skill-matching", "keyword">>}

notRouter == <<qvars, qhist, rvars, cvars, probe, agent>>

NextRouter ==
  \/ \E strategy \in StrategyNames : AddStrategy(strategy) /\ UNCHANGED notRouter
  \/ \E name \in StrategyNames : RemoveStrategy(name) /\ UNCHANGED notRouter
  \/ \E list \in StrategyLists : SetStrategies(list) /\ UNCHANGED notRouter
  \/ \E content \in SUBSET Words : FindBestMember(content) /\ UNCHANGED notRouter
  \/ \E i \in 1..MaxMembers, availability \in 0..MaxAvailability :
       ChangeMember(i, DomainId, availability) /\ UNCHANGED notRouter
  \/ \E domainId \in {DomainId, "social-media"} :
       ChangeMember(MaxMembers, domainId, 1) /\ UNCHANGED notRouter

\* a RoundRobinStrategy called by a caller of its own, and by a router that
\* holds it
NextRoundRobin ==
  \/ RoundRobin /\ UNCHANGED notRouter
  \/ RoundRobinReset /\ UNCHANGED notRouter
  \/ SetStrategies(<<"round-robin">>) /\ UNCHANGED notRouter
  \/ FindBestMember({}) /\ UNCHANGED notRouter
  \/ \E i \in 1..MaxMembers, domainId \in {DomainId, "social-media"},
        availability \in 0..MaxAvailability :
       ChangeMember(i, domainId, availability) /\ UNCHANGED notRouter

qall == <<qvars, qhist, rvars, tvars>>

\* the steps of the coordinator that no caller starts: sends ending,
\* messages coming in, timers, and the continuations of the waves
WaveSteps ==
  \/ \E f \in Suspended : SendDone(f) /\ UNCHANGED qall
  \/ \E w \in WorkerIds, t \in CTaskIds, success \in BOOLEAN :
       ResultIntake(w, t, success) /\ UNCHANGED qall
  \/ \E t \in CTaskIds, r \in Runs : WaitTimeout(t, r) /\ UNCHANGED qall
  \/ WavePick /\ UNCHANGED qall
  \/ WaitForResult /\ UNCHANGED qall
  \/ Settle /\ UNCHANGED qall
  \/ WaveDone /\ UNCHANGED qall

\* the continuations of processPendingTasks
PendingSteps ==
  \/ PendingResume /\ UNCHANGED qall
  \/ PendingAgain /\ UNCHANGED qall

\* the coordinator with assignTask called from outside and one
\* executeTasksInParallel call, of new tasks without dependencies
NextCoord ==
  \/ \E w \in WorkerIds : RegisterWorker(w) /\ UNCHANGED qall
  \/ \E t \in 1..MaxCoordTasks, w \in WorkerIds :
       AssignTask(t, w) /\ UNCHANGED qall
  \/ \E ts \in SUBSET (1..MaxCoordTasks) :
       /\ ts # {}
       /\ ts \cap assigned = {}
       /\ ExecuteTasksInParallel(1, Flat(ts))
       /\ UNCHANGED qall
  \/ WaveSteps
  \/ PendingSteps

\* the coordinator with assignTask called from outside and the workers
\* reporting their status
NextStatus ==
  \/ \E w \in 1..MaxStatusWorkers : RegisterWorker(w) /\ UNCHANGED qall
  \/ \E t \in 1..MaxStatusTasks, w \in 1..MaxStatusWorkers :
       AssignTask(t, w) /\ UNCHANGED qall
  \/ \E w \in 1..MaxStatusWorkers, status \in AgentStatuses :
       StatusIntake(w, status) /\ UNCHANGED qall
  \/ \E f \in Suspended : SendDone(f) /\ UNCHANGED qall
  \/ \E w \in WorkerIds, t \in CTaskIds, success \in BOOLEAN :
       ResultIntake(w, t, success) /\ UNCHANGED qall
  \/ PendingSteps

\* the coordinator without a task queue: tasks created and assigned from
\* outside, workers registered at any time, every worker answering
NextDrain ==
  \/ \E w \in WorkerIds : RegisterWorker(w) /\ UNCHANGED qall
  \/ \E t \in 1..MaxCoordTasks : CreateTask(t) /\ UNCHANGED qall
  \/ CreateResume /\ UNCHANGED qall
  \/ \E t \in 1..MaxCoordTasks, w \in WorkerIds :
       AssignTask(t, w) /\ UNCHANGED qall
  \/ \E f \in Suspended : SendDone(f) /\ UNCHANGED qall
  \/ \E w \in WorkerIds, t \in CTaskIds, success \in BOOLEAN :
       ResultIntake(w, t, success) /\ UNCHANGED qall
  \/ PendingSteps

\* what the coordinator, the transport and the workers do by themselves
DrainSends == \E f \in Suspended : SendDone(f) /\ UNCHANGED qall

DrainResults ==
  \E w \in WorkerIds, t \in CTaskIds, success \in BOOLEAN :
    ResultIntake(w, t, success) /\ UNCHANGED qall

\* nothing is dispatched to worker w
Free(w) ==
  /\ workers[w].status = IDLE
  /\ \A f \in Suspended : ~(f.kind = "send" /\ f.worker = w)

\* the coordinator with assignTask called from outside for one task at a
\* time: a worker is assigned a task when it is registered and nothing is
\* dispatched to it
NextRate ==
  \/ \E w \in WorkerIds : ~Registered(w) /\ RegisterWorker(w) /\ UNCHANGED qall
  \/ \E t \in CTaskIds, w \in WorkerIds :
       Free(w) /\ AssignTask(t, w) /\ UNCHANGED qall
  \/ \E f \in Suspended : SendDone(f) /\ UNCHANGED qall
  \/ \E w \in WorkerIds, t \in CTaskIds, success \in BOOLEAN :
       ResultIntake(w, t, success) /\ UNCHANGED qall

\* the coordinator with one executeTasksInParallel call on a batch of
\* Batches, and nothing else calling assignTask: the pending buffer stays
\* empty
NextExec ==
  \/ \E w \in WorkerIds : ~Registered(w) /\ RegisterWorker(w) /\ UNCHANGED qall
  \/ \E b \in Batches : ExecuteTasksInParallel(1, b) /\ UNCHANGED qall
  \/ WaveSteps

\* a task and a task depending on it
PairBatch == Batch({1, 2}, [NoDeps EXCEPT ![2] = {1}])

RunBatches == {Flat({1}), PairBatch}

\* the coordinator with up to MaxRuns executeTasksInParallel calls, which
\* may overlap and name the same task ids
NextRuns ==
  \/ \E w \in WorkerIds : ~Registered(w) /\ RegisterWorker(w) /\ UNCHANGED qall
  \/ \E r \in Runs, b \in RunBatches :
       ExecuteTasksInParallel(r, b) /\ UNCHANGED qall
  \/ WaveSteps

\* ------------------------------------------------------------- specification

\* a caller with no operation in progress
Idle == [pc |-> "idle", id |-> 0, ids |-> <<>>, ready |-> <<>>,
         data |-> [t \in TaskIds |-> NoTask]]


Init ==
  /\ task = [t \in TaskIds |-> NoTask]
  /\ deps = [t \in TaskIds |-> {}]
  /\ zq = {}
  /\ results = {}
  /\ completeCalls = {}
  /\ failCalls = [t \in TaskIds |-> 0]
  /\ enqOrder = <<>>
  /\ lastOp = Update
  /\ run = <<>>
  /\ runReady = {}
  /\ call = [c \in Callers |-> Idle]
  /\ handed = [t \in TaskIds |-> 0]
  /\ completeDone = {}
  /\ workers = [w \in WorkerIds |-> NoWorker]
  /\ regOrder = <<>>
  /\ pendingTasks = <<>>
  /\ cresults = [t \in CTaskIds |-> NoResult]
  /\ pendingPromises = [t \in CTaskIds |-> NoRun]
  /\ waiters = {}
  /\ frames = EmptyBag
  /\ micro = <<>>
  /\ batch = FALSE
  /\ exec = [r \in Runs |-> NoExec]
  /\ inbox = [w \in WorkerIds |-> EmptyBag]
  /\ assigned = {}
  /\ sent = <<>>
  /\ fresh = [r \in Runs |-> {}]
  /\ strategies = DefaultStrategies
  /\ lastAssignedIndex = NoIndex
  /\ team = [i \in 1..MaxMembers |-> TeamMember(i, DomainId, 1)]
  /\ routed = NotRouted
  /\ rrLog = NoCalls
  /\ probe = NoProbe
  /\ agent = NewAgent

EnqueueAny ==
  \E t \in TaskIds, p \in Priorities :
    \E d \in SUBSET (TaskIds \ {t}) : Enqueue(t, p, d)

MarkCompleteAny == \E id \in TaskIds : MarkComplete(id)

MarkFailedAny == \E id \in TaskIds, e \in Errors : MarkFailed(id, e)

others == <<rvars, cvars, tvars>>

Next ==
  \/ EnqueueAny /\ UNCHANGED others
  \/ Dequeue /\ UNCHANGED others
  \/ Peek /\ UNCHANGED others
  \/ GetReadyTasks /\ UNCHANGED others
  \/ MarkCompleteAny /\ UNCHANGED others
  \/ MarkFailedAny /\ UNCHANGED others
  \/ Tick /\ UNCHANGED others

\* the coordinator with a task queue and processTaskQueue calls that run
\* with no other activity: the queue is filled, tasks fail and workers are
\* registered between the calls, and time passes
NextQueueRun ==
  \/ frames = EmptyBag /\ EnqueueAny /\ UNCHANGED others
  \/ frames = EmptyBag /\ MarkFailedAny /\ UNCHANGED others
  \/ Tick /\ UNCHANGED others
  \/ \E w \in WorkerIds :
       /\ frames = EmptyBag
       /\ ~Registered(w)
       /\ RegisterWorker(w)
       /\ UNCHANGED qall
  \/ ProcessTaskQueue /\ UNCHANGED <<rvars, tvars>>
  \/ \E f \in Suspended : PtqDequeue(f) /\ UNCHANGED <<rvars, tvars>>
  \/ \E f \in Suspended : SendDone(f) /\ UNCHANGED qall

Spec == Init /\ [][Next]_vars

\* ------------------------------------------------- the queue, callers racing
\* dequeue and markComplete run by concurrent callers, one Redis command per
\* step.  enqueue runs alone; nothing fails and no time passes, so no task is
\* Retrying here.

\* dequeue -> getReadyTasks: const taskIds = await zrange(QUEUE_KEY, 0, -1)
DqStart(c) ==
  /\ call[c].pc = "idle"
  /\ call' = [call EXCEPT ![c] = [Idle EXCEPT !.pc = "dq_scan", !.ids = ZRange]]
  /\ UNCHANGED <<qvars, qhist, handed, completeDone>>

\* getReadyTasks, one turn of the loop: hget(task:<taskId>, 'data'), and the
\* task read is kept if it is Ready (or Retrying and due, then written back)
DqScan(c) ==
  /\ call[c].pc = "dq_scan"
  /\ call[c].ids # <<>>
  /\ LET t == Head(call[c].ids)
         keep == Exists(t) /\ (task[t].status = READY \/ Promotable(t))
         read == [task[t] EXCEPT !.status = READY]
     IN /\ call' = [call EXCEPT
                      ![c].ids = Tail(@),
                      ![c].ready = IF keep THEN Append(@, t) ELSE @,
                      ![c].data = IF keep THEN [@ EXCEPT ![t] = read] ELSE @]
        /\ task' = IF keep THEN [task EXCEPT ![t] = read] ELSE task
  /\ UNCHANGED <<deps, zq, results, qhist, handed, completeDone>>

\* dequeue after getReadyTasks: return null, or hset(task:<id>, 'data', task)
\* with the task object read during the scan, now InProgress
DqWrite(c) ==
  /\ call[c].pc = "dq_scan"
  /\ call[c].ids = <<>>
  /\ IF call[c].ready = <<>>
     THEN UNCHANGED <<task, handed>>
     ELSE LET t == DequeueChoice(call[c].ready)
          IN /\ task' = [task EXCEPT
                           ![t] = [call[c].data[t] EXCEPT !.status = DequeueStatus]]
             /\ handed' = [handed EXCEPT ![t] = @ + 1]
  /\ call' = [call EXCEPT ![c] = Idle]
  /\ UNCHANGED <<deps, zq, results, qhist, completeDone>>

\* markComplete: const taskData = await hget(task:<taskId>, 'data')
McRead(c, id) ==
  /\ call[c].pc = "idle"
  /\ call' = [call EXCEPT ![c] = [Idle EXCEPT !.pc = "mc_write", !.id = id,
                                               !.data = [@ EXCEPT ![id] = task[id]]]]
  /\ UNCHANGED <<qvars, qhist, handed, completeDone>>

\* markComplete: hset(task:<taskId>, 'data', task) with status Completed
McWrite(c) ==
  /\ call[c].pc = "mc_write"
  /\ LET id == call[c].id
     IN task' = IF call[c].data[id] # NoTask
                THEN [task EXCEPT ![id] = [call[c].data[id] EXCEPT !.status = COMPLETED]]
                ELSE task
  /\ call' = [call EXCEPT ![c].pc = "mc_zrem"]
  /\ UNCHANGED <<deps, zq, results, qhist, handed, completeDone>>

\* markComplete: zrem(QUEUE_KEY, taskId), then set(result:<taskId>, ...)
McZRem(c) ==
  /\ call[c].pc = "mc_zrem"
  /\ zq' = ZRem(call[c].id)
  /\ results' = results \cup {call[c].id}
  /\ call' = [call EXCEPT ![c].pc = "mc_resolve"]
  /\ UNCHANGED <<task, deps, qhist, handed, completeDone>>

\* markComplete: resolveDependencies(taskId), and the call returns
McResolve(c) ==
  /\ call[c].pc = "mc_resolve"
  /\ LET id == call[c].id
     IN /\ deps' = ResolvedDeps(zq, id)
        /\ task' = ResolvedTasks(task, zq, id)
        /\ completeDone' = IF call[c].data[id] # NoTask
                            THEN completeDone \cup {id}
                            ELSE completeDone
  /\ call' = [call EXCEPT ![c] = Idle]
  /\ UNCHANGED <<zq, results, qhist, handed>>

AllIdle == \A c \in Callers : call[c].pc = "idle"

REnqueue == AllIdle /\ EnqueueAny /\ UNCHANGED rvars

NextRace ==
  \/ REnqueue /\ UNCHANGED <<cvars, tvars>>
  \/ \E c \in Callers : DqStart(c) /\ UNCHANGED <<cvars, tvars>>
  \/ \E c \in Callers : DqScan(c) /\ UNCHANGED <<cvars, tvars>>
  \/ \E c \in Callers : DqWrite(c) /\ UNCHANGED <<cvars, tvars>>
  \/ \E c \in Callers, id \in TaskIds : McRead(c, id) /\ UNCHANGED <<cvars, tvars>>
  \/ \E c \in Callers : McWrite(c) /\ UNCHANGED <<cvars, tvars>>
  \/ \E c \in Callers : McZRem(c) /\ UNCHANGED <<cvars, tvars>>
  \/ \E c \in Callers : McResolve(c) /\ UNCHANGED <<cvars, tvars>>

SpecRace == Init /\ [][NextRace]_vars

SpecCoord == Init /\ [][NextCoord]_vars

SpecStatus == Init /\ [][NextStatus]_vars

SpecQueueRun == Init /\ [][NextQueueRun]_vars

SpecRetry == Init /\ [][NextRetry]_vars

SpecWorker == Init /\ [][NextWorker]_vars

SpecDrain == Init /\ [][NextDrain]_vars

\* every continuation runs, every send completes, every worker answers
SpecDrainFair ==
  /\ SpecDrain
  /\ WF_vars(CreateResume /\ UNCHANGED qall)
  /\ WF_vars(PendingSteps)
  /\ WF_vars(DrainSends)
  /\ WF_vars(DrainResults)

SpecRouter == Init /\ [][NextRouter]_vars

SpecRoundRobin == Init /\ [][NextRoundRobin]_vars

SpecRate == Init /\ [][NextRate]_vars

SpecExec == Init /\ [][NextExec]_vars

SpecRuns == Init /\ [][NextRuns]_vars

\* the event loop goes on while a send, a message, a timer or a continuation
\* is there to be handled
SpecExecFair == SpecExec /\ WF_vars(WaveSteps)

\* ===================================================================== claims

Returned == {lastOp.ret[i] : i \in 1..Len(lastOp.ret)}

EnqIndex(t) == CHOOSE i \in 1..Len(enqOrder) : enqOrder[i] = t

\* C1: a task enqueued with dependencies is not returned by getReadyTasks or
\* dequeue while some dependency has not been passed to markComplete.
C1_NotReturnedBeforeDependencies ==
  lastOp.op \in {"getReadyTasks", "dequeue"} =>
    \A t \in Returned : task[t].dependencies \subseteq completeCalls

\* C3: a worker never has more than one task dispatched to it (sent, or being
\* sent) for which its Result has not been received.
Outstanding(w) ==
  BagCardinality(inbox[w])
    + Cardinality({f \in Suspended : f.kind = "send" /\ f.worker = w})

C3_OneTaskPerWorker == \A w \in WorkerIds : Outstanding(w) <= 1

\* C4: once every dependency of T has been passed to markComplete, whether
\* before or after the enqueue of T, T is unblocked.  Stated for a T on which
\* markFailed was never called and whose dependencies are all tasks of the
\* queue in status Completed: such a T is not Pending, and a getReadyTasks
\* call that finds it Ready returns it.
DependenciesCompleted(t) ==
  /\ Exists(t)
  /\ task[t].dependencies # {}
  /\ failCalls[t] = 0
  /\ \A d \in task[t].dependencies :
       d \in completeCalls /\ Exists(d) /\ task[d].status = COMPLETED

C4_DependentUnblocked ==
  \A t \in TaskIds :
    DependenciesCompleted(t) =>
      /\ task[t].status # PENDING
      /\ (lastOp.op = "getReadyTasks" /\ task[t].status = READY) => t \in Returned

\* C5 as stated: the tasks returned by a run of dequeue calls are distinct and
\* come in non-increasing priority order.
C5_RunNonIncreasing ==
  \A i, j \in 1..Len(run) :
    i < j => run[i] # run[j] /\ task[run[i]].priority >= task[run[j]].priority

\* C5 amended: in a run of dequeue calls with no other queue operation in
\* between, every returned task is InProgress and is returned once, and the
\* tasks that were Ready when the run began come in non-increasing priority
\* order.
C5_RunOrdered ==
  \A i, j \in 1..Len(run) :
    /\ task[run[i]].status = IN_PROGRESS
    /\ i < j => run[i] # run[j]
    /\ (i < j /\ run[i] \in runReady /\ run[j] \in runReady)
         => task[run[i]].priority >= task[run[j]].priority

C5_Witness ==
  /\ Len(run) = 2
  /\ run[1] \in runReady /\ run[2] \in runReady
  /\ task[run[1]].priority > task[run[2]].priority
  /\ run[1] > run[2]

\* C6: Ready tasks of equal priority are returned in enqueue order, by
\* getReadyTasks (within its list) and by dequeue and peek (before every
\* Ready task of the same priority that is left).
C6_FifoWithinPriority ==
  /\ lastOp.op = "getReadyTasks" =>
       \A i, j \in 1..Len(lastOp.ret) :
         (i < j /\ task[lastOp.ret[i]].priority = task[lastOp.ret[j]].priority)
           => EnqIndex(lastOp.ret[i]) < EnqIndex(lastOp.ret[j])
  /\ lastOp.op \in {"dequeue", "peek"} =>
       \A t \in Returned : \A u \in (ReadyNow \cap Members) \ {t} :
         task[t].priority = task[u].priority => EnqIndex(t) < EnqIndex(u)

\* C2: no task is returned by two dequeue calls, whatever their interleaving
\* (no task fails in SpecRace, so none is legitimately returned again).
C2_NoDoubleDequeue == \A t \in TaskIds : handed[t] <= 1

\* C7: when a markComplete(t) that found the task has returned and every
\* dequeue that overlapped it has returned too, t is Completed.
C7_CompletedStaysCompleted ==
  AllIdle => \A t \in completeDone : task[t].status = COMPLETED

\* C8: the markFailed call that is the MaxRetries-th on a task leaves it
\* Failed, and a task with MaxRetries markFailed calls is never Ready,
\* Retrying or InProgress again, nor returned by getReadyTasks or dequeue.
C8_ExhaustedState ==
  \A t \in TaskIds :
    failCalls[t] >= MaxRetries =>
      /\ task[t].status \in {FAILED, COMPLETED}
      /\ t \notin Returned

C8_ExhaustedStep ==
  \A t \in TaskIds :
    (failCalls'[t] >= MaxRetries /\ failCalls'[t] # failCalls[t])
      => task'[t].status = FAILED

C8_FailedAfterMaxRetries == []C8_ExhaustedState /\ [][C8_ExhaustedStep]_vars

C8_Witness ==
  \E t \in TaskIds :
    /\ failCalls[t] >= MaxRetries
    /\ task[t].status = FAILED
    /\ task[t].scheduledAt = 0
    /\ t \in Members
    /\ lastOp.op = "getReadyTasks"

\* C9: markFailed decides as the retry policy's shouldRetry does for the
\* retry count it has reached and the error it was given: the task is
\* Retrying if shouldRetry holds and Failed otherwise.
C9_DecisionAgrees ==
  \A id \in TaskIds, e \in Errors :
    (MarkFailed(id, e) /\ Exists(id)) =>
      /\ ShouldRetry(task'[id].retryCount, e) => task'[id].status = RETRYING
      /\ ~ShouldRetry(task'[id].retryCount, e) => task'[id].status = FAILED

C9_QueueFollowsRetryPolicy == [][C9_DecisionAgrees]_vars

\* C10: while a task F is Failed, a Pending task that depends on F stays
\* Pending.
C10_Step ==
  \A f, t \in TaskIds :
    (/\ Exists(f) /\ task[f].status = FAILED
     /\ Exists(t) /\ f \in task[t].dependencies
     /\ task[t].status = PENDING)
      => task'[t].status = PENDING

C10_DependentsOfFailedStayPending == [][C10_Step]_vars

\* C11: a markComplete or markFailed call with an id that was never enqueued
\* changes nothing in the queue: no task hash, no dependency set, not the
\* sorted set, and no Result is stored.
C11_Step ==
  \A id \in TaskIds :
    (id \notin Enqueued /\ (MarkComplete(id) \/ \E e \in Errors : MarkFailed(id, e)))
      => UNCHANGED qvars

C11_UnknownIdIsNoOp == [][C11_Step]_vars

\* C12: when a member of a wave of a run begins the send of its task, a
\* Result for every dependency of the task has been received since the run
\* began.
C12_Step ==
  Len(sent') = Len(sent) + 1 =>
    LET e == sent'[Len(sent')]
    IN e.run # NoRun =>
         exec[e.run].input.deps[e.task] \subseteq fresh[e.run]

RECURSIVE Reachable(_, _)
Reachable(b, done) ==
  LET more == {t \in b.tasks \ done : b.deps[t] \subseteq done}
  IN IF more = {} THEN done ELSE Reachable(b, done \cup more)

\* b has a dependency cycle or a dependency that no task of b satisfies
Unsatisfiable(b) == Reachable(b, {}) # b.tasks

\* C13 as stated: a call on a batch with a cycle or an unsatisfiable
\* dependency that has ended has ended with the cycle error.
C13_EndsWithCycleError ==
  \A r \in Runs :
    (Unsatisfiable(exec[r].input) /\ exec[r].status \notin {"none", "running"})
      => (exec[r].status = "failed" /\ exec[r].error = "cycle")

\* C13 amended: such a call never returns normally, it ends with an error,
\* and when no wave before has failed the error is the cycle error, raised
\* with the tasks of the cycle never sent.
C13_NeverReturns ==
  \A r \in Runs :
    Unsatisfiable(exec[r].input) =>
      /\ exec[r].status # "done"
      /\ exec[r].status = "failed" =>
           /\ exec[r].error \in {"cycle", "noworker", "timeout"}
           /\ exec[r].error = "cycle" =>
                exec[r].remaining = exec[r].input.tasks \ Reachable(exec[r].input, {})

C13_Ends ==
  \A r \in Runs :
    (Unsatisfiable(exec[r].input) /\ exec[r].status = "running")
      ~> (exec[r].status = "failed")

C13_UnsatisfiableBatchFails == []C13_NeverReturns /\ C13_Ends

C13_Witness ==
  /\ Unsatisfiable(exec[1].input)
  /\ exec[1].status = "failed"
  /\ exec[1].error = "cycle"
  /\ exec[1].waves = 1

\* the ids of the tasks whose sends have begun, in order
RECURSIVE SentTasks(_)
SentTasks(log) ==
  IF log = <<>> THEN <<>> ELSE <<Head(log).task>> \o SentTasks(Tail(log))

IsPrefix(a, b) == Len(a) <= Len(b) /\ a = SubSeq(b, 1, Len(a))

\* executeTasksInParallel([X, Y, Z]), Y depending on X and Z on Y, one
\* worker registered, no wait timed out
ChainScenario ==
  /\ exec[1].status # "none"
  /\ exec[1].input = ChainBatch
  /\ Len(regOrder) = 1
  /\ exec[1].error # "timeout"

\* C14: in that scenario the tasks are sent in the order X, Y, Z, one per
\* wave, each after the Result of the one before was received, and the call
\* returns after three waves.
C14_ThreeWaves ==
  ChainScenario =>
    /\ IsPrefix(SentTasks(sent), <<1, 2, 3>>)
    /\ Cardinality(exec[1].wave) <= 1
    /\ exec[1].waves \in {Len(sent), Len(sent) + 1}
    /\ \A i \in 2..Len(sent) : sent[i - 1].task \in fresh[1]
    /\ exec[1].status = "done" =>
         /\ SentTasks(sent) = <<1, 2, 3>>
         /\ exec[1].waves = 3
         /\ exec[1].results = {1, 2, 3}

C14_Witness == ChainScenario /\ exec[1].status = "done"

\* C15: waitForResult on a task whose Result is recorded is fulfilled at
\* once and registers no waiter; otherwise it registers one.  When the wait
\* of a run times out, no waiter is registered under the task id any more
\* and the run, if it had not ended, ends with the Timeout error.  A Result
\* coming in is recorded, with or without a waiter.
C15_Step ==
  /\ WaitForResult =>
       IF cresults[due.task] # NoResult
       THEN /\ UNCHANGED <<pendingPromises, waiters>>
            /\ \E i \in 1..Len(micro') :
                 /\ micro'[i].kind = "settle"
                 /\ micro'[i].task = due.task
                 /\ micro'[i].run = due.run
       ELSE /\ pendingPromises'[due.task] = due.run
            /\ <<due.task, due.run>> \in waiters'
  /\ \A t \in CTaskIds, r \in Runs :
       WaitTimeout(t, r) =>
         /\ pendingPromises'[t] = NoRun
         /\ <<t, r>> \notin waiters'
         /\ exec[r].status = "running" =>
              (exec'[r].status = "failed" /\ exec'[r].error = "timeout")
  /\ \A w \in WorkerIds, t \in CTaskIds, success \in BOOLEAN :
       ResultIntake(w, t, success) =>
         cresults'[t] = (IF success THEN "ok" ELSE "fail")

C15_WaitForResult == [][C15_Step]_vars

\* a wait has timed out and the Result has come in after it
C15_Witness ==
  \E r \in Runs :
    /\ exec[r].error = "timeout"
    /\ exec[r].wave = {1}
    /\ cresults[1] # NoResult
    /\ pendingPromises[1] = NoRun
    /\ fresh[r] = {1}
    /\ waiters = {}

\* C16: two waits on the same task id are both registered: every wait that
\* is still outstanding is the one a Result for its task would fulfil, so a
\* wait registered later or a timeout of the other wait does not remove it.
C16_BothWaitersRegistered ==
  \A t \in CTaskIds, r \in Runs :
    <<t, r>> \in waiters => pendingPromises[t] = r

\* the run r has handed the task u of its wave to a worker
Dispatched(u, r) ==
  \E i \in 1..Len(sent) : sent[i].task = u /\ sent[i].run = r

\* every member of the wave of run r has looked for a worker
WavePicked(r) ==
  \A i \in 1..Len(micro) : ~(micro[i].kind = "pick" /\ micro[i].run = r)

\* C18: when a member of the wave has found no Idle worker and the call has
\* failed with 'no worker available' for it, the error is confined to that
\* member: every other member of the wave has been dispatched.
C18_ErrorConfined ==
  \A r \in Runs :
    (exec[r].error = "noworker" /\ WavePicked(r)) =>
      \A t \in exec[r].unserved :
        \A u \in exec[r].wave \ {t} : Dispatched(u, r)

\* C19: a worker held as Offline becomes Idle or Busy again only by
\* registerWorker: no Result, STATUS message or send puts it back.
C19_Step ==
  \A w \in WorkerIds :
    (workers[w].status = OFFLINE /\ workers'[w].status \in {IDLE, BUSY}) =>
      RegisterWorker(w)

C19_OfflineUntilRegistered == [][C19_Step]_vars

\* the place of task t in the pending buffer q, 0 when it is not there
Place(q, t) ==
  IF \E i \in 1..Len(q) : q[i] = t
  THEN CHOOSE i \in 1..Len(q) : q[i] = t
  ELSE 0

\* C17: the pending buffer is first in, first out: of two buffered tasks
\* a before b, b does not leave the buffer while a stays in it, and while
\* both stay a stays before b.
C17_Step ==
  \A i, j \in 1..Len(pendingTasks) :
    LET a == pendingTasks[i]
        b == pendingTasks[j]
    IN (i < j /\ a # UndefinedTask /\ b # UndefinedTask) =>
         /\ Place(pendingTasks', b) = 0 => Place(pendingTasks', a) = 0
         /\ Place(pendingTasks', b) # 0 =>
              Place(pendingTasks', a) < Place(pendingTasks', b)

C17_PendingFifo == [][C17_Step]_vars

\* the tasks handed to worker w, those of them whose Result has come in, and
\* those whose Result was a success
TasksOf(w) == {sent[i].task : i \in {j \in 1..Len(sent) : sent[j].worker = w}}

Reported(w) == {t \in TasksOf(w) : cresults[t] # NoResult}

Succeeded(w) == {t \in TasksOf(w) : cresults[t] = "ok"}

\* C20: a worker that was assigned its tasks one at a time and has reported
\* n >= 1 Results has successRate = (number of successful Results) / n, and
\* its taskCount is n, or n + 1 while its next task is out.
C20_SuccessRateIsMean ==
  \A w \in WorkerIds :
    (Registered(w) /\ Reported(w) # {}) =>
      /\ workers[w].successRate =
           Frac(Cardinality(Succeeded(w)), Cardinality(Reported(w)))
      /\ workers[w].taskCount \in
           {Cardinality(Reported(w)), Cardinality(Reported(w)) + 1}

\* three successes followed by one failure: 3/4
C20_Witness ==
  \E w \in WorkerIds :
    /\ Len(sent) = 4
    /\ \A i \in 1..4 :
         /\ sent[i].worker = w
         /\ cresults[sent[i].task] = (IF i < 4 THEN "ok" ELSE "fail")
    /\ workers[w].taskCount = 4
    /\ workers[w].successRate = <<3, 4>>

\* the call of processTaskQueue that is suspended
PtqCall == CHOOSE f \in Suspended : TRUE

Smaller(a, b) == IF a < b THEN a ELSE b

\* C21: when a processTaskQueue call that ran with no other activity ends,
\* with r tasks Ready and i workers Idle when it began, it has dequeued
\* min(r, i) tasks, all different and InProgress, each of a priority no lower
\* than that of any task that was Ready and was not dequeued; the k-th of
\* them was sent to the k-th worker that was Idle, which now holds that one
\* task, and nothing is in the pending buffer.  A call that finds no Ready
\* task or no Idle worker dequeues and sends nothing.
C21_Step ==
  /\ (frames # EmptyBag /\ frames' = EmptyBag) =>
       LET f == PtqCall
           n == Smaller(Cardinality(runReady'), Len(f.avail))
       IN /\ Len(run') = n
          /\ Len(sent') >= n
          /\ pendingTasks' = <<>>
          /\ \A k \in 1..n :
               /\ task'[run'[k]].status = IN_PROGRESS
               /\ \A j \in 1..n : run'[j] = run'[k] => j = k
               /\ \A u \in runReady' \ {run'[j] : j \in 1..n} :
                    task'[run'[k]].priority >= task'[u].priority
               /\ sent'[Len(sent') - n + k].task = run'[k]
               /\ sent'[Len(sent') - n + k].worker = f.avail[k]
               /\ workers'[f.avail[k]].status = BUSY
               /\ inbox'[f.avail[k]] = SetToBag({run'[k]})
  /\ (ProcessTaskQueue /\ frames' = EmptyBag) =>
       /\ Smaller(Len(lastOp'.ret), Len(AvailableWorkers)) = 0
       /\ UNCHANGED <<sent, pendingTasks, workers, inbox>>
       /\ \A t \in TaskIds : task'[t].status # IN_PROGRESS \/ task[t].status = IN_PROGRESS

C21_ProcessTaskQueue == [][C21_Step]_vars

\* a call has ended that dequeued two tasks and sent them to two workers
C21_Witness ==
  /\ frames = EmptyBag
  /\ lastOp.op = "dequeue"
  /\ Len(run) = 2
  /\ Len(sent) = 2
  /\ \A w \in WorkerIds : workers[w].status = BUSY /\ BagCardinality(inbox[w]) = 1

\* C22: assignTask for a worker id that is not in the registry ends with the
\* error 'Worker inconnu' and changes nothing: nothing is sent or about to
\* be sent, the pending buffer, every worker's record and what the workers
\* hold are as before.
C22_Step ==
  \A t \in CTaskIds, w \in WorkerIds :
    (AssignTask(t, w) /\ workers[w] = NoWorker) =>
      /\ AssignTaskEnd(w) = "Worker inconnu"
      /\ UNCHANGED <<workers, regOrder, pendingTasks, cresults,
                     pendingPromises, waiters, frames, micro, exec, inbox,
                     sent, fresh>>

C22_UnknownWorker == [][C22_Step]_vars

\* assignTask was called for a worker id that is not registered
C22_Witness ==
  /\ assigned # {}
  /\ \E w \in WorkerIds : workers[w] = NoWorker
  /\ sent = <<>>
  /\ pendingTasks = <<>>
  /\ regOrder = <<>>

\* strategy i of the router's list finds a member for the task
Finds(i, content) ==
  Route(strategies[i], content, DomainMembers(team), lastAssignedIndex)

\* C23: addStrategy puts the new strategy after the ones registered before,
\* removeStrategy takes one out and keeps the order of the others, and
\* findBestMember, on a team with members of the domain, consults the
\* strategies in that order up to the first that returns a member and
\* returns that member; when none returns a member it consults them all.
C23_Step ==
  /\ \A strategy \in StrategyNames :
       AddStrategy(strategy) =>
         /\ SubSeq(strategies', 1, Len(strategies)) = strategies
         /\ strategies' = Append(strategies, strategy)
  /\ \A name \in StrategyNames :
       RemoveStrategy(name) =>
         \/ /\ \A i \in 1..Len(strategies) : strategies[i] # name
            /\ strategies' = strategies
         \/ \E i \in 1..Len(strategies) :
              /\ strategies[i] = name
              /\ Len(strategies') = Len(strategies) - 1
              /\ \A j \in 1..(i - 1) : strategies'[j] = strategies[j]
              /\ \A j \in (i + 1)..Len(strategies) : strategies'[j - 1] = strategies[j]
  /\ \A content \in SUBSET Words :
       (FindBestMember(content) /\ DomainMembers(team) # <<>>) =>
         /\ \A i \in 1..Len(strategies) :
              (/\ Finds(i, content) # NoMember
               /\ \A j \in 1..(i - 1) : Finds(j, content) = NoMember) =>
                /\ routed'.found = Finds(i, content)
                /\ routed'.consulted = SubSeq(strategies, 1, i)
         /\ (\A i \in 1..Len(strategies) : Finds(i, content) = NoMember) =>
              routed'.consulted = strategies

C23_FirstMatchWins == [][C23_Step]_vars

\* after strategies were removed and added, the first of two strategies has
\* found a member for a task for which the second finds another one
C23_Witness ==
  /\ Len(strategies) = 2
  /\ strategies # DefaultStrategies
  /\ routed.consulted = <<strategies[1]>>
  /\ routed.found # NoMember
  /\ \E content \in SUBSET Words :
       /\ Finds(1, content) = routed.found
       /\ Finds(2, content) \notin {NoMember, routed.found}

\* the members of the team that are in the domain and available, and those
\* of them that hold the domain's default role
InDomainAvailable ==
  {i \in 1..MaxMembers : team[i].domainId = DomainId /\ team[i].availability > 0}

InDomainDefault == {i \in InDomainAvailable : team[i].roleId = DefaultRole}

NoStrategyFinds(content) ==
  \/ DomainMembers(team) = <<>>
  \/ \A i \in 1..Len(strategies) : Finds(i, content) = NoMember

\* C24: when no strategy returns a member, findBestMember returns a member
\* of the domain that holds the default role and is available if there is
\* one, otherwise an available member of the domain if there is one,
\* otherwise none.
C24_Step ==
  \A content \in SUBSET Words :
    (FindBestMember(content) /\ NoStrategyFinds(content)) =>
      IF InDomainDefault # {} THEN routed'.found \in InDomainDefault
      ELSE IF InDomainAvailable # {} THEN routed'.found \in InDomainAvailable
      ELSE routed'.found = NoMember

C24_Fallback == [][C24_Step]_vars

\* two strategies were consulted, none finds a member for some task, and the
\* member returned is one that does not hold the default role
C24_Witness ==
  /\ Len(strategies) = 2
  /\ routed.consulted = strategies
  /\ \E content \in SUBSET Words : NoStrategyFinds(content)
  /\ routed.found \in InDomainAvailable
  /\ InDomainDefault = {}
  /\ \A content \in SUBSET Words, i \in 1..2 : Finds(i, content) # routed.found

\* C25: RoundRobinStrategy.route called in a row on one list of K available
\* members selects every member of the list in its first K calls and on call
\* K + 1 the member of call 1, whatever index the strategy held before.
C25_RoundRobinCycle ==
  LET K == Len(rrLog.list)
      picks == rrLog.picks
  IN /\ Len(picks) <= K + 1
     /\ Len(picks) >= K =>
          {picks[i] : i \in 1..K} = {rrLog.list[i] : i \in 1..K}
     /\ Len(picks) = K + 1 => (K > 0 /\ picks[K + 1] = picks[1])

\* four calls on three available members, by a strategy that had been used
\* before
C25_Witness ==
  /\ Len(rrLog.list) = 3
  /\ Len(rrLog.picks) = 4
  /\ rrLog.picks[1] # rrLog.list[1]

\* the error message names one of the classes that are never retried
NamesFatalClass(error) ==
  \E i \in 1..Len(error) :
    error[i] \in {"FATAL", "INVALID", "UNAUTHORIZED", "NOT_FOUND"}

\* C26: shouldRetry returns false when the error message contains FATAL,
\* INVALID, UNAUTHORIZED or NOT_FOUND, and otherwise returns true exactly
\* when the attempt number is below maxRetries.
C26_ShouldRetry ==
  probe.asked =>
    probe.retry = (/\ ~NamesFatalClass(probe.error)
                   /\ probe.attempt < 3)

C26_Witness ==
  /\ probe.asked
  /\ probe.attempt = 0
  /\ probe.error = <<"INVALID", "input">>
  /\ ~probe.retry

\* C27: with the default policy and whatever the jitter draws, the delay of
\* attempt a is at most the delay of attempt a + 1, and no delay exceeds
\* maxDelayMs (30000).
C27_DelayMonotone ==
  /\ \A i \in 1..Len(probe.delays) : probe.delays[i].delay <= 30000
  /\ \A i, j \in 1..Len(probe.delays) :
       probe.delays[i].attempt + 1 = probe.delays[j].attempt
         => probe.delays[i].delay <= probe.delays[j].delay

C27_Witness ==
  /\ Len(probe.delays) = 2
  /\ probe.delays[1].attempt = 4
  /\ probe.delays[1].jitter = JitterSteps
  /\ probe.delays[2].attempt = 5
  /\ probe.delays[2].jitter = 0
  /\ probe.delays[1].delay = 17600
  /\ probe.delays[2].delay = 30000

\* C28: a task enqueued with an empty dependency set is in the list that a
\* getReadyTasks call made immediately after the enqueue returns.
C28_Step ==
  /\ \A t \in TaskIds :
       (/\ t \notin Enqueued
        /\ enqOrder' = Append(enqOrder, t)
        /\ task'[t].dependencies = {})
         => \E i \in 1..Len(ReadyList') : ReadyList'[i] = t
  /\ GetReadyTasks => lastOp'.ret = ReadyList

C28_EnqueuedIsReady == [][C28_Step]_vars

C28_Witness ==
  /\ lastOp.op = "getReadyTasks"
  /\ Len(enqOrder) = 2
  /\ task[enqOrder[2]].dependencies = {}
  /\ task[enqOrder[2]].retryCount = 0
  /\ lastOp.ret = <<enqOrder[1], enqOrder[2]>>

\* what dequeue returns in the current state
DequeueWouldReturn ==
  IF ReadyList = <<>> THEN <<>> ELSE <<DequeueChoice(ReadyList)>>

\* C29: peek returns the task dequeue would return in the same state; it
\* leaves the dependency sets, the sorted set and the results as they were,
\* and changes no task except that a Retrying task whose scheduledAt has
\* passed is written back as Ready.
C29_Step ==
  Peek =>
    /\ lastOp'.ret = DequeueWouldReturn
    /\ UNCHANGED <<deps, zq, results>>
    /\ \A t \in TaskIds :
         \/ task'[t] = task[t]
         \/ /\ Exists(t) /\ Promotable(t)
            /\ task'[t] = [task[t] EXCEPT !.status = READY]

C29_PeekFrame == [][C29_Step]_vars

\* C29 as stated: peek mutates nothing.
C29_PeekMutatesNothing ==
  [][Peek => UNCHANGED <<task, deps, zq, results>>]_vars

C29_Witness ==
  /\ lastOp.op = "peek"
  /\ Len(ReadyList) = 2
  /\ lastOp.ret = <<ReadyList[1]>>
  /\ task[ReadyList[1]].status = READY
  /\ task[ReadyList[1]].retryCount > 0

\* C30: in every state a task whose remaining dependency set is not empty
\* has status Pending.
C30_UnresolvedIsPending ==
  \A t \in TaskIds :
    (Exists(t) /\ deps[t] # {}) => task[t].status = PENDING

\* C30, second part: no operation moves a task that has left Pending back to
\* Pending.
C30_Step ==
  \A t \in TaskIds :
    (Exists(t) /\ task[t].status # PENDING) => task'[t].status # PENDING

C30_NeverBackToPending == [][C30_Step]_vars

\* C31: once a task is Completed or Failed, no later queue operation changes
\* its status or its retryCount.
C31_Step ==
  \A t \in TaskIds :
    (Exists(t) /\ task[t].status \in {COMPLETED, FAILED})
      => /\ task'[t].status = task[t].status
         /\ task'[t].retryCount = task[t].retryCount

C31_TerminalStatuses == [][C31_Step]_vars

\* positions of a list in non-increasing priority order
ByPriority(list) ==
  \A i, j \in 1..Len(list) :
    i < j => task[list[i]].priority >= task[list[j]].priority

\* C32: a Retrying task is not returned by getReadyTasks or dequeue before
\* its scheduledAt; the first getReadyTasks at or after scheduledAt writes it
\* back as Ready and returns it, in the place its priority gives it.
C32_Step ==
  /\ (GetReadyTasks \/ Dequeue) =>
       \A t \in TaskIds :
         (Exists(t) /\ task[t].status = RETRYING /\ task[t].scheduledAt > 0)
           => /\ \A i \in 1..Len(lastOp'.ret) : lastOp'.ret[i] # t
              /\ task'[t].status = RETRYING
  /\ GetReadyTasks =>
       /\ \A t \in TaskIds :
            (Exists(t) /\ task[t].status = RETRYING /\ task[t].scheduledAt <= 0)
              => /\ \E i \in 1..Len(lastOp'.ret) : lastOp'.ret[i] = t
                 /\ task'[t].status = READY
                 /\ task'[t].priority = task[t].priority
       /\ ByPriority(lastOp'.ret)

C32_RetryingPromoted == [][C32_Step]_vars

\* C32 on the tasks still in the sorted set: the same, for a Retrying task
\* that markComplete has not removed from taskqueue:pending.
C32_QueuedStep ==
  /\ (GetReadyTasks \/ Dequeue) =>
       \A t \in TaskIds :
         (Exists(t) /\ task[t].status = RETRYING /\ task[t].scheduledAt > 0)
           => /\ \A i \in 1..Len(lastOp'.ret) : lastOp'.ret[i] # t
              /\ task'[t].status = RETRYING
  /\ GetReadyTasks =>
       /\ \A t \in Members :
            (Exists(t) /\ task[t].status = RETRYING /\ task[t].scheduledAt <= 0)
              => /\ \E i \in 1..Len(lastOp'.ret) : lastOp'.ret[i] = t
                 /\ task'[t].status = READY
                 /\ task'[t].priority = task[t].priority
       /\ ByPriority(lastOp'.ret)

C32_QueuedRetryingPromoted == [][C32_QueuedStep]_vars

\* C33: every TASK message a worker has handled has led to exactly one
\* RESULT message, on every path of execute.
C33_OneResultPerTask ==
  \A t \in agent.handled : Len(agent.results[t]) = 1

\* the last withRetry call: its fn, its strategy, how it went
LastFn == agent.last.fn
LastOut == agent.last.out

\* the first invocation of fn that succeeds, 0 if none does
FirstOk(fn) ==
  IF \E k \in 1..Len(fn) : fn[k].ok
  THEN CHOOSE k \in 1..Len(fn) : fn[k].ok /\ \A j \in 1..(k - 1) : ~fn[j].ok
  ELSE 0

WithRetryContract ==
  /\ LastOut.calls <= agent.last.strategy.maxRetries + 1
  /\ LastOut.end \in {"returns", "throws"}
  /\ LastOut.end = "returns" =>
       /\ LastOut.calls = FirstOk(LastFn)
       /\ LastOut.value = LastFn[FirstOk(LastFn)].value
  /\ \A k \in 1..LastOut.calls :
       (~Invocation(LastFn, k).ok /\ NamesFatalClass(Invocation(LastFn, k).error))
         => (k = LastOut.calls /\ LastOut.end = "throws")
  /\ LastOut.end = "throws" =>
       LastOut.error = Invocation(LastFn, LastOut.calls).error

\* C38: withRetry(fn, strategy) invokes fn at most maxRetries + 1 times,
\* returns the value of the first successful invocation, stops at once on a
\* fatal-class error, and throws the last error when the budget is exhausted.
C38_WithRetry ==
  agent.last # NoRetryRun => WithRetryContract

\* C38 with the ExponentialBackoffStrategy only.
C38_WithRetryExponential ==
  (agent.last # NoRetryRun /\ agent.last.strategy.kind = "exponential")
    => WithRetryContract

\* C38 without the fatal classes: the bound, the value returned and the
\* error thrown, for every strategy.
C38_WithRetryBounded ==
  agent.last # NoRetryRun =>
    /\ LastOut.calls <= agent.last.strategy.maxRetries + 1
    /\ LastOut.end \in {"returns", "throws"}
    /\ LastOut.end = "returns" =>
         /\ LastOut.calls = FirstOk(LastFn)
         /\ LastOut.value = LastFn[FirstOk(LastFn)].value
    /\ LastOut.end = "throws" =>
         LastOut.error = Invocation(LastFn, LastOut.calls).error

InBuffer(t) == \E i \in 1..Len(pendingTasks) : pendingTasks[i] = t

SomeIdle == \E w \in WorkerIds : workers[w].status = IDLE

\* nothing is on its way: no continuation, no send, no task at a worker
NothingOutstanding ==
  /\ micro = <<>>
  /\ frames = EmptyBag
  /\ \A w \in WorkerIds : inbox[w] = EmptyBag

\* C34: no task stays in the pending buffer for ever while a registered
\* worker is Idle and every dispatched task has yielded its Result.
C34_BufferDrained ==
  \A t \in 1..MaxCoordTasks :
    ~<>[](InBuffer(t) /\ SomeIdle /\ NothingOutstanding)

\* C35: when executeTasksInParallel has returned normally, the map it
\* returns holds a Result for every task id of the batch and for nothing
\* else, and no task of the batch is still to be run.
C35_AllResultsReturned ==
  \A r \in Runs :
    exec[r].status = "done" =>
      /\ exec[r].results = exec[r].input.tasks
      /\ exec[r].remaining = {}
      /\ \A t \in exec[r].results : cresults[t] # NoResult

C35_Witness ==
  /\ exec[1].status = "done"
  /\ exec[1].input = ChainBatch
  /\ exec[1].results = {1, 2, 3}
  /\ exec[1].waves = 3

\* the places a task is in: its entries in the pending buffer and the sends
\* begun for it
InBufferCount(t) == Cardinality({i \in 1..Len(pendingTasks) : pendingTasks[i] = t})

SentCount(t) == Cardinality({i \in 1..Len(sent) : sent[i].task = t})

Places(t) == InBufferCount(t) + SentCount(t)

\* C36: a task passed to assignTask with a registered worker is from then on
\* in exactly one place, the pending buffer or one send; no task is sent
\* twice and none leaves the buffer without being sent.
C36_Step ==
  \A t \in CTaskIds :
    /\ Places(t) = 1 => Places(t)' = 1
    /\ Places(t)' <= 1
    /\ SentCount(t)' >= SentCount(t)
    /\ \A w \in WorkerIds :
         (AssignTask(t, w) /\ Registered(w)) => Places(t)' = 1

C36_TaskConservation == [][C36_Step]_vars

C36_Witness ==
  /\ assigned = {1, 2, 3}
  /\ Len(sent) = 2
  /\ sent[1].task = 2
  /\ sent[2].task = 1
  /\ sent[1].worker = sent[2].worker
  /\ pendingTasks = <<3>>

\* C37: a dependency counts as satisfied as soon as its Result is there,
\* whatever its success flag: a Result with success = false resolves the
\* wait on its task and fails nothing, and after a wave every task whose
\* dependencies all have a Result is in the next wave.
C37_Step ==
  /\ \A w \in WorkerIds, t \in CTaskIds :
       (ResultIntake(w, t, FALSE) /\ pendingPromises[t] # NoRun)
         => /\ \E i \in 1..Len(micro') :
                 micro'[i] = SettleFrame(t, pendingPromises[t], 2)
            /\ <<t, pendingPromises[t]>> \notin waiters'
            /\ exec' = exec
  /\ WaveDone =>
       LET r == due.run
       IN exec[r].status = "running" =>
            \A t \in exec'[r].remaining :
              exec'[r].input.deps[t] \subseteq exec'[r].results
                => (exec'[r].status = "running" /\ t \in exec'[r].wave)
  /\ \A r \in Runs :
       exec'[r].status = "failed" =>
         exec'[r].error \in {"cycle", "noworker", "timeout"}

C37_FailedResultSatisfies == [][C37_Step]_vars

C37_Witness ==
  /\ exec[1].status = "done"
  /\ exec[1].input = ChainBatch
  /\ exec[1].results = {1, 2, 3}
  /\ cresults[1] = "fail"
  /\ cresults[3] = "ok"

\* a rate between 0 and 1
InUnit(rate) == rate[2] > 0 /\ 0 <= rate[1] /\ rate[1] <= rate[2]

\* a send of a task to worker w completes in this step
TaskSendDone(w) ==
  \E f \in Suspended : SendDone(f) /\ f.worker = w /\ f.task # UndefinedTask

\* C39: for every registered worker, taskCount is the number of tasks sent
\* to it since its last registration (0 at a registration, one more at each
\* task sent, unchanged otherwise), and successRate is between 0 and 1.
C39_Step ==
  \A w \in WorkerIds :
    /\ RegisterWorker(w) => workers'[w].taskCount = 0
    /\ TaskSendDone(w) => workers'[w].taskCount = workers[w].taskCount + 1
    /\ (~RegisterWorker(w) /\ ~TaskSendDone(w))
         => workers'[w].taskCount = workers[w].taskCount
    /\ InUnit(workers'[w].successRate)
    /\ \A success \in BOOLEAN :
         InUnit(NewSuccessRate(workers'[w].successRate, workers'[w].taskCount,
                               success))

C39_WorkerCounters == [][C39_Step]_vars

\* a send to worker w completes in this step, of a task or of the message
\* assignTask builds from an undefined task
AnySendDone(w) == \E f \in Suspended : SendDone(f) /\ f.worker = w

\* C39 with every send counted, and the bounds of successRate.
C39_SendsStep ==
  \A w \in WorkerIds :
    /\ RegisterWorker(w) => workers'[w].taskCount = 0
    /\ AnySendDone(w) => workers'[w].taskCount = workers[w].taskCount + 1
    /\ (~RegisterWorker(w) /\ ~AnySendDone(w))
         => workers'[w].taskCount = workers[w].taskCount
    /\ InUnit(workers'[w].successRate)
    /\ \A success \in BOOLEAN :
         InUnit(NewSuccessRate(workers'[w].successRate, workers'[w].taskCount,
                               success))

C39_SendsCounted == [][C39_SendsStep]_vars

\* C40: findBestMember returns a member of the router's domain with
\* availability > 0 when there is one, whatever the strategies registered,
\* and none exactly when there is no such member.
C40_Step ==
  \A content \in SUBSET Words :
    FindBestMember(content) =>
      IF InDomainAvailable = {}
      THEN routed'.found = NoMember
      ELSE routed'.found \in InDomainAvailable

C40_InDomainAvailableOnly == [][C40_Step]_vars

C40_Witness ==
  /\ routed.consulted = <<"keyword", "round-robin">>
  /\ routed.found = NoMember
  /\ InDomainAvailable = {}
  /\ team[MaxMembers].domainId # DomainId
  /\ team[MaxMembers].availability > 0
====
